---- MODULE Spec2Model ----
(***************************************************************************)
(* Model of the per-record enrichment pipeline of the investor-list        *)
(* enricher: the record reconciler (sanitize_record), the column           *)
(* normalizer (normalize_to_columns), the JSON recovery of extract_record  *)
(* and the row loop of main() with its checkpoints.                        *)
(*                                                                         *)
(* Python values are tagged records: None, str, int, bool, list and dict.  *)
(* A dict is the sequence of its <<key, value>> pairs in insertion order.  *)
(* Text is a TLA+ string; TLC evaluates Len, \o and SubSeq on strings.     *)
(***************************************************************************)
EXTENDS Integers, Sequences, FiniteSets, TLC

VARIABLES sanIn, sanOut, sanAgain, sanCols,
          indices, pos, df, results, csv, xlsx, log, env, saves, faults, pc,
          call, ret

sanVars == <<sanIn, sanOut, sanAgain, sanCols>>
runVars == <<indices, pos, df, results, csv, xlsx, log, env, saves, faults, pc>>
callVars == <<call, ret>>
vars == <<sanIn, sanOut, sanAgain, sanCols,
          indices, pos, df, results, csv, xlsx, log, env, saves, faults, pc,
          call, ret>>

\* ------------------------------------------------------------------------
\* Python values
\* ------------------------------------------------------------------------
Null == [t |-> "null"]
Str(s) == [t |-> "str", v |-> s]
Num(n) == [t |-> "num", v |-> n]
Bool(b) == [t |-> "bool", v |-> b]
List(q) == [t |-> "list", v |-> q]
Dict(p) == [t |-> "dict", v |-> p]

\* bool(x): what `if x`, `not x` and `x or y` test.
Truthy(x) ==
    CASE x.t = "null" -> FALSE
      [] x.t = "str"  -> Len(x.v) > 0
      [] x.t = "num"  -> x.v # 0
      [] x.t = "bool" -> x.v
      [] x.t = "list" -> Len(x.v) > 0
      [] x.t = "dict" -> Len(x.v) > 0

HasKey(d, k) == \E i \in 1..Len(d) : d[i][1] = k

\* dict.get(k): None when the key is absent.
get(d, k) ==
    IF HasKey(d, k) THEN d[CHOOSE i \in 1..Len(d) : d[i][1] = k][2] ELSE Null

\* d[k] = x: an existing key keeps its place, a new key goes last.
put(d, k, x) ==
    IF HasKey(d, k)
    THEN [i \in 1..Len(d) |-> IF d[i][1] = k THEN <<k, x>> ELSE d[i]]
    ELSE Append(d, <<k, x>>)

\* ------------------------------------------------------------------------
\* Text
\* ------------------------------------------------------------------------
IsSpace(c) == c \in {" ", "\t", "\n", "\r"}

CharAt(s, i) == SubSeq(s, i, i)

RECURSIVE lstrip(_)
lstrip(s) ==
    IF Len(s) > 0 /\ IsSpace(CharAt(s, 1)) THEN lstrip(SubSeq(s, 2, Len(s))) ELSE s

RECURSIVE rstrip(_)
rstrip(s) ==
    IF Len(s) > 0 /\ IsSpace(CharAt(s, Len(s)))
    THEN rstrip(SubSeq(s, 1, Len(s) - 1))
    ELSE s

\* str.strip()
strip(s) == rstrip(lstrip(s))

UpperChars == "ABCDEFGHIJKLMNOPQRSTUVWXYZ"
LowerChars == "abcdefghijklmnopqrstuvwxyz"

LowerChar(c) ==
    IF \E i \in 1..Len(UpperChars) : CharAt(UpperChars, i) = c
    THEN CharAt(LowerChars, CHOOSE i \in 1..Len(UpperChars) : CharAt(UpperChars, i) = c)
    ELSE c

RECURSIVE lower(_)
\* str.lower()
lower(s) ==
    IF Len(s) = 0 THEN ""
    ELSE IF Len(s) = 1 THEN LowerChar(s)
    ELSE lower(SubSeq(s, 1, Len(s) \div 2)) \o lower(SubSeq(s, (Len(s) \div 2) + 1, Len(s)))

\* `sub in s` on strings.
Contains(s, sub) ==
    \E i \in 1..(Len(s) - Len(sub) + 1) : SubSeq(s, i, i + Len(sub) - 1) = sub

StartsWith(s, p) == Len(s) >= Len(p) /\ SubSeq(s, 1, Len(p)) = p

RECURSIVE join(_, _)
\* sep.join(q) for a sequence of strings.
join(sep, q) ==
    IF Len(q) = 0 THEN ""
    ELSE IF Len(q) = 1 THEN q[1]
    ELSE q[1] \o sep \o join(sep, Tail(q))

Digits == "0123456789"

RECURSIVE NatStr(_)
NatStr(n) ==
    IF n < 10 THEN CharAt(Digits, n + 1)
    ELSE NatStr(n \div 10) \o CharAt(Digits, (n % 10) + 1)

\* str(n) of an int.
IntStr(n) == IF n < 0 THEN "-" \o NatStr(0 - n) ELSE NatStr(n)

RECURSIVE PyRepr(_)
\* repr(x): what str() gives for the items of a container.
PyRepr(x) ==
    CASE x.t = "null" -> "None"
      [] x.t = "str"  -> "'" \o x.v \o "'"
      [] x.t = "num"  -> IntStr(x.v)
      [] x.t = "bool" -> IF x.v THEN "True" ELSE "False"
      [] x.t = "list" ->
            "[" \o join(", ", [i \in 1..Len(x.v) |-> PyRepr(x.v[i])]) \o "]"
      [] x.t = "dict" ->
            "{" \o join(", ", [i \in 1..Len(x.v) |->
                        "'" \o x.v[i][1] \o "': " \o PyRepr(x.v[i][2])]) \o "}"

\* str(x)
PyStr(x) == IF x.t = "str" THEN x.v ELSE PyRepr(x)

\* ------------------------------------------------------------------------
\* Taxonomy tables
\* ------------------------------------------------------------------------
VC == "Venture Capital Funds"
ANGEL == "Angel Investors"
UNI == "Universities & Research Centers"
ICT_LONG == "Information & Communication Technology (ICT)"
BPS == "Business & Professional Services"

\* The ten labels the prompt allows for funding_classification.
FUNDING_CLASSIFICATIONS ==
    { "Venture Capital Funds", "Angel Investors", "Microfinance Institutions",
      "Accelerators", "Incubators", "Investment Firms", "Sovereign Wealth Funds",
      "Coworking Spaces", "Entrepreneurship Support Agencies",
      "Universities & Research Centers" }

ALLOWED_SECTORS ==
    { "Information & Communication Technology (ICT)", "ICT", "Health", "Energy",
      "Agriculture", "Environment", "Industry & Manufacturing",
      "Transportation & Mobility", "Education", "Creative Industries",
      "Infrastructure & Real Estate", "Social Impact",
      "Business & Professional Services" }

\* A variant of the lookup in which every classification has the same default.
DEFAULT_SECTOR_BY_FC_one_default(fc) == BPS

\* DEFAULT_SECTOR_BY_FC.get(fc, "Business & Professional Services")
DEFAULT_SECTOR_BY_FC(fc) == IF fc = Str(UNI) THEN "Education" ELSE BPS

\* SECTOR_ALIAS_WRITE.get(s, s)
map_sector_label_for_sheet(s) == IF s \in {ICT_LONG, "ICT"} THEN "ICT" ELSE s

CLS_HINTS ==
    << <<"Sovereign Wealth Funds",
         <<"sovereign wealth", "fund for future generations", "pif", "mubadala", "qia">> >>,
       <<"Venture Capital Funds",
         <<"venture capital", "vc fund", "seed fund", "growth fund", "series a", "series b">> >>,
       <<"Angel Investors",
         <<"angel investor", "angel network", "angel group", "syndicate">> >>,
       <<"Microfinance Institutions",
         <<"microfinance", "micro-credit", "micro finance">> >>,
       <<"Accelerators", <<"accelerator program", "acceleration program">> >>,
       <<"Incubators", <<"incubator", "incubation program">> >>,
       <<"Investment Firms",
         <<"investment firm", "investment company", "private equity", "holding company",
           "investment bank", "merchant bank">> >>,
       <<"Coworking Spaces", <<"coworking", "co-working", "shared workspace">> >>,
       <<"Entrepreneurship Support Agencies",
         <<"agency", "authority", "ministry", "directorate", "national program",
           "ecosystem support", "policy program">> >>,
       <<"Universities & Research Centers",
         <<"university", "research center", "research institute", "technology transfer",
           "tto">> >> >>

AnyKeyword(s, kws) == \E j \in 1..Len(kws) : Contains(s, kws[j])

\* First label of CLS_HINTS with a keyword in "{name} {text}".lower(); the
\* default is "Investment Firms", with or without "bank" in the text.
heuristic_funding_classification(name, text) ==
    LET s == lower(name \o " " \o text)
        hit == {i \in 1..Len(CLS_HINTS) : AnyKeyword(s, CLS_HINTS[i][2])}
    IN  IF hit # {}
        THEN CLS_HINTS[CHOOSE i \in hit : \A j \in hit : i <= j][1]
        ELSE "Investment Firms"

NEW_SECTOR_KEYWORDS ==
    << <<"ICT", <<"software", "ai", "cloud", "big data", "cybersecurity", "fintech",
                  "insurtech", "proptech", "e-commerce">> >>,
       <<"Health", <<"biotech", "pharma", "medtech", "digital health", "life sciences">> >>,
       <<"Energy", <<"renewable", "solar", "wind", "hydro", "cleantech", "energy storage",
                     "efficiency", "oil", "gas">> >>,
       <<"Agriculture", <<"agritech", "agri-tech", "agriculture", "farming", "foodtech",
                          "crop", "livestock">> >>,
       <<"Environment", <<"water management", "waste", "recycling", "climate",
                          "conservation", "carbon">> >>,
       <<"Industry & Manufacturing", <<"robotics", "automation", "advanced materials",
                                       "3d printing", "manufacturing">> >>,
       <<"Transportation & Mobility", <<"aviation", "automotive", "shipping", "logistics",
                                        "ev", "mobility", "space tech">> >>,
       <<"Education", <<"edtech", "education", "training", "skills", "learning">> >>,
       <<"Creative Industries", <<"media", "gaming", "film", "design", "digital content",
                                  "creative">> >>,
       <<"Infrastructure & Real Estate", <<"real estate", "housing", "smart city",
                                           "construction", "industrial zone",
                                           "infrastructure">> >>,
       <<"Social Impact", <<"poverty", "women", "refugee", "youth employment",
                            "inclusive">> >>,
       <<"Business & Professional Services", <<"banking", "insurance", "asset management",
                                               "consulting", "law firm", "advisory",
                                               "professional services">> >> >>

\* q[:n]
Take(q, n) == SubSeq(q, 1, IF Len(q) < n THEN Len(q) ELSE n)

SectorHit(s, i) == AnyKeyword(s, NEW_SECTOR_KEYWORDS[i][2])

RECURSIVE SectorHitsFrom(_, _)
SectorHitsFrom(s, i) ==
    IF i > Len(NEW_SECTOR_KEYWORDS) THEN <<>>
    ELSE (IF SectorHit(s, i) THEN <<NEW_SECTOR_KEYWORDS[i][1]>> ELSE <<>>)
         \o SectorHitsFrom(s, i + 1)

SectorCap == 4

\* The sectors with a keyword in the text, in table order, at most four.
infer_sectors_multi(text) == Take(SectorHitsFrom(lower(text), 1), SectorCap)

\* ------------------------------------------------------------------------
\* Helpers of the reconciler
\* ------------------------------------------------------------------------
ClipLen == 220

\* A variant of clip that cuts first and strips afterwards.
clip_strip_after_cut(s, n) ==
    IF Len(s) = 0 THEN Null
    ELSE IF Len(s) > n THEN Str(strip(SubSeq(s, 1, n)) \o "...") ELSE Str(strip(s))

\* clip(s, n): None for an empty s; else s stripped, and when longer than n
\* its first n characters followed by "...".
clip(s, n) ==
    LET u == strip(s)
    IN  IF Len(s) = 0 THEN Null
        ELSE IF Len(u) > n THEN Str(SubSeq(u, 1, n) \o "...") ELSE Str(u)

SECTOR_ITEM_KEYS == <<"name", "label", "value", "sector">>

IsLabelValue(x) == x.t = "str" /\ Len(strip(x.v)) > 0

\* One item of a sectors list: the strings it contributes (none or one).
SectorItemStrings(item) ==
    CASE item.t = "str" ->
            IF Len(strip(item.v)) > 0 THEN <<strip(item.v)>> ELSE <<>>
      [] item.t = "dict" ->
            LET ks == {j \in 1..Len(SECTOR_ITEM_KEYS) :
                          IsLabelValue(get(item.v, SECTOR_ITEM_KEYS[j]))}
            IN  IF ks = {} THEN <<>>
                ELSE <<strip(get(item.v,
                          SECTOR_ITEM_KEYS[CHOOSE j \in ks : \A k \in ks : j <= k]).v)>>
      [] OTHER ->
            IF Len(strip(PyStr(item))) > 0 THEN <<strip(PyStr(item))>> ELSE <<>>

RECURSIVE SectorListStrings(_)
SectorListStrings(q) ==
    IF Len(q) = 0 THEN <<>> ELSE SectorItemStrings(Head(q)) \o SectorListStrings(Tail(q))

\* _as_string_sector_list(raw): the sectors field as a list of strings.
_as_string_sector_list(raw) ==
    CASE raw.t = "null" -> <<>>
      [] raw.t = "str"  -> IF Len(strip(raw.v)) > 0 THEN <<strip(raw.v)>> ELSE <<>>
      [] raw.t = "list" -> SectorListStrings(raw.v)
      [] OTHER -> IF Len(strip(PyStr(raw))) > 0 THEN <<strip(PyStr(raw))>> ELSE <<>>

IsAllowedSector(s) == s \in ALLOWED_SECTORS

RECURSIVE DedupFrom(_, _)
DedupFrom(q, seen) ==
    IF Len(q) = 0 THEN <<>>
    ELSE IF Head(q) \in seen THEN DedupFrom(Tail(q), seen)
    ELSE <<Head(q)>> \o DedupFrom(Tail(q), seen \cup {Head(q)})

\* list(dict.fromkeys(q)): first occurrences, in order.
Dedup(q) == DedupFrom(q, {})

\* The per-classification sentence of synth_additional_info.
SynthTemplate(name, region, fc, sec_txt) ==
    CASE fc = Str("Venture Capital Funds") ->
            "A venture capital firm investing across " \o sec_txt \o ". " \o name
            \o " backs startups in " \o region \o " with funding and strategic support."
      [] fc = Str("Investment Firms") ->
            "An investment firm providing capital and strategic support across "
            \o sec_txt \o ". " \o name \o " partners with companies in " \o region
            \o " to scale and optimize operations."
      [] fc = Str("Angel Investors") ->
            "An angel "
            \o (IF Contains(lower(name), "network") THEN "network" ELSE "investor")
            \o " backing early-stage startups in " \o sec_txt \o ". " \o name
            \o " supports founders in " \o region \o " with capital and guidance."
      [] fc = Str("Microfinance Institutions") ->
            "A microfinance institution enabling access to finance for micro and small enterprises. "
            \o name \o " serves entrepreneurs in " \o region
            \o " through tailored credit solutions."
      [] fc = Str("Accelerators") ->
            "An accelerator delivering programs and mentorship for startups. " \o name
            \o " helps founders in " \o region \o " validate, build, and grow."
      [] fc = Str("Incubators") ->
            "An incubator providing workspace and hands-on support for early ventures. "
            \o name \o " nurtures entrepreneurs in " \o region \o " from idea to startup."
      [] fc = Str("Sovereign Wealth Funds") ->
            "A sovereign wealth fund investing for long-term national value. " \o name
            \o " allocates capital to diversified sectors in " \o region \o "."
      [] fc = Str("Coworking Spaces") ->
            "A coworking hub offering flexible workspace and community for entrepreneurs. "
            \o name \o " hosts teams and events in " \o region \o "."
      [] fc = Str("Entrepreneurship Support Agencies") ->
            "An ecosystem support organization delivering programs and services for entrepreneurs. "
            \o name \o " promotes startup growth in " \o region \o "."
      [] fc = Str("Universities & Research Centers") ->
            "A university/research center fostering innovation and commercialization. "
            \o name \o " supports research-based ventures in " \o region \o "."
      [] OTHER ->
            "An organization operating across " \o sec_txt \o ". " \o name
            \o " supports businesses in " \o region \o "."

\* synth_additional_info(name, country, fc, sectors): the template, clipped.
synth_additional_info(name, country, fc, sectors) ==
    LET region == IF Truthy(country) THEN country.v ELSE "the region"
        sec_txt == IF Len(sectors) > 0 THEN join(", ", sectors) ELSE "key industries"
    IN  clip(SynthTemplate(name, region, fc, sec_txt), ClipLen)

\* ------------------------------------------------------------------------
\* Record sanitization
\* ------------------------------------------------------------------------
StrList(q) == List([i \in 1..Len(q) |-> Str(q[i])])

\* sanitize_record raises (AttributeError) when the record has no .get, or
\* when funding_classification is a truthy value without .strip().
sanitize_raises(record) ==
    \/ record.t # "dict"
    \/ LET f == get(record.v, "funding_classification")
       IN  Truthy(f) /\ f.t # "str"

\* Rule 1: a missing or blank classification becomes the heuristic one.
SanClassification(r, heuristic_fc) ==
    LET f == get(r, "funding_classification")
        fc == IF Truthy(f) THEN strip(f.v) ELSE ""
    IN  IF Len(fc) = 0
        THEN put(r, "funding_classification",
                 Str(IF Len(heuristic_fc) > 0 THEN heuristic_fc ELSE "Investment Firms"))
        ELSE r

\* A variant of the derivation that looks for "network" only.
AngelTypeFromName_network_only(name_lower) ==
    IF Contains(name_lower, "network") THEN "network" ELSE "individual"

\* "network" if ("network" in name_lower or "group" in name_lower or
\* "syndicate" in name_lower) else "individual"
AngelTypeFromName(name_lower) ==
    IF \/ Contains(name_lower, "network")
       \/ Contains(name_lower, "group")
       \/ Contains(name_lower, "syndicate")
    THEN "network" ELSE "individual"

\* A variant of rule 2 that clears angel_type only when the model gave none.
SanAngelType_keep_model(org, r) ==
    IF get(r, "funding_classification") = Str("Angel Investors")
    THEN IF ~Truthy(get(r, "angel_type"))
         THEN put(r, "angel_type",
                  Str(AngelTypeFromName(
                          lower(IF Truthy(org.name) THEN org.name.v ELSE ""))))
         ELSE r
    ELSE IF Truthy(get(r, "angel_type")) THEN r ELSE put(r, "angel_type", Null)

\* Rule 2: angel_type is derived from the name for Angel Investors when the
\* model gave none, and is None for every other classification.
SanAngelType(org, r) ==
    IF get(r, "funding_classification") = Str("Angel Investors")
    THEN IF ~Truthy(get(r, "angel_type"))
         THEN put(r, "angel_type",
                  Str(AngelTypeFromName(
                          lower(IF Truthy(org.name) THEN org.name.v ELSE ""))))
         ELSE r
    ELSE put(r, "angel_type", Null)

\* A variant of rule 3 that forgets the cap of four.
SanSectors_no_cap(r, inferred_sectors) ==
    LET model_secs == SelectSeq(_as_string_sector_list(get(r, "sectors")), IsAllowedSector)
        inferred == SelectSeq(_as_string_sector_list(inferred_sectors), IsAllowedSector)
        secs == IF Len(model_secs) > 0 THEN model_secs
                ELSE IF Len(inferred) > 0 THEN inferred
                ELSE <<DEFAULT_SECTOR_BY_FC(get(r, "funding_classification"))>>
    IN  put(r, "sectors", StrList(Dedup(secs)))

\* Rule 3: allow-listed model sectors, else allow-listed inferred sectors,
\* else the default of the classification; first occurrences, at most four.
SanSectors(r, inferred_sectors) ==
    LET model_secs == SelectSeq(_as_string_sector_list(get(r, "sectors")), IsAllowedSector)
        inferred == SelectSeq(_as_string_sector_list(inferred_sectors), IsAllowedSector)
        secs == IF Len(model_secs) > 0 THEN model_secs
                ELSE IF Len(inferred) > 0 THEN inferred
                ELSE <<DEFAULT_SECTOR_BY_FC(get(r, "funding_classification"))>>
    IN  put(r, "sectors", StrList(Take(Dedup(secs), SectorCap)))

MinInfoLen == 10

\* Rule 4: the model's text when it is a string of more than 10 characters
\* after trimming, else the synthesized note; both clipped.
SanAdditionalInfo(org, r) ==
    LET ai == get(r, "additional_info")
        secs == get(r, "sectors").v
    IN  IF Truthy(ai) /\ ai.t = "str" /\ Len(strip(ai.v)) > MinInfoLen
        THEN put(r, "additional_info", clip(ai.v, ClipLen))
        ELSE put(r, "additional_info",
                 synth_additional_info(
                     IF Truthy(org.name) THEN org.name.v ELSE "",
                     org.country,
                     get(r, "funding_classification"),
                     [i \in 1..Len(secs) |-> map_sector_label_for_sheet(secs[i].v)]))

\* A variant of rule 5 that leaves the ticket currency alone.
SanStageFields_keep_currency(r) ==
    IF get(r, "funding_classification") # Str("Venture Capital Funds")
    THEN put(put(put(r, "stages", List(<<>>)),
                 "ticket_size_usd_min", Null),
             "ticket_size_usd_max", Null)
    ELSE r

\* Rule 5: stages and ticket fields are cleared unless Venture Capital Funds.
SanStageFields(r) ==
    IF get(r, "funding_classification") # Str("Venture Capital Funds")
    THEN put(put(put(put(r, "stages", List(<<>>)),
                     "ticket_size_usd_min", Null),
                 "ticket_size_usd_max", Null),
             "ticket_size_currency", Null)
    ELSE r

SourceCap == 5

\* Rule 6: the first five sources of a list, an empty list for anything else.
SanSources(r) ==
    LET srcs == get(r, "sources")
    IN  put(r, "sources",
            IF Truthy(srcs) /\ srcs.t = "list" THEN List(Take(srcs.v, SourceCap))
            ELSE List(<<>>))

\* sanitize_record(org, record, heuristic_fc, inferred_sectors), for a record
\* on which it does not raise: the six rules, in the code's order.
sanitize_record(org, record, heuristic_fc, inferred_sectors) ==
    Dict(SanSources(SanStageFields(SanAdditionalInfo(org,
            SanSectors(SanAngelType(org, SanClassification(record.v, heuristic_fc)),
                       inferred_sectors)))))

\* ------------------------------------------------------------------------
\* Column normalizer
\* ------------------------------------------------------------------------
\* ", ".join(stages) raises TypeError for a number, a bool, or a list that
\* holds a non-string; it is evaluated only for Venture Capital Funds.
normalize_raises(record) ==
    LET st == get(record.v, "stages")
    IN  /\ get(record.v, "funding_classification") = Str("Venture Capital Funds")
        /\ Truthy(st)
        /\ \/ st.t \in {"num", "bool"}
           \/ st.t = "list" /\ \E i \in 1..Len(st.v) : st.v[i].t # "str"

\* What ", ".join iterates over: the items of a list, the characters of a
\* string, the keys of a dict.
JoinItems(x) ==
    CASE x.t = "list" -> [i \in 1..Len(x.v) |-> x.v[i].v]
      [] x.t = "str"  -> [i \in 1..Len(x.v) |-> CharAt(x.v, i)]
      [] x.t = "dict" -> [i \in 1..Len(x.v) |-> x.v[i][1]]

\* normalize_to_columns(record, cfg): the five output columns.
normalize_to_columns(record) ==
    LET fc == get(record.v, "funding_classification")
        secs == get(record.v, "sectors")
        sectors == IF Truthy(secs)
                   THEN [i \in 1..Len(secs.v) |-> map_sector_label_for_sheet(secs.v[i].v)]
                   ELSE <<>>
        stages == get(record.v, "stages")
    IN  [ funding_classification |-> fc,
          sector |-> IF Len(sectors) > 0 THEN Str(join(", ", sectors)) ELSE Null,
          ticket_size_vc |-> IF fc = Str("Venture Capital Funds") /\ Truthy(stages)
                             THEN Str(join(", ", JoinItems(stages))) ELSE Null,
          angel_type |-> IF fc = Str("Angel Investors")
                         THEN get(record.v, "angel_type") ELSE Null,
          note |-> get(record.v, "additional_info") ]

\* ------------------------------------------------------------------------
\* Website resolution
\* ------------------------------------------------------------------------
SOCIAL_HOSTS == <<"linkedin.com", "facebook.com", "twitter.com", "x.com", "instagram.com", "t.co">>

\* _is_social(url): one of the names is a substring of the lowercased url.
_is_social(url) == AnyKeyword(lower(url), SOCIAL_HOSTS)

IsHttp(s) == StartsWith(s, "http://") \/ StartsWith(s, "https://")

\* _normalize_scheme(url), for a non-empty stripped string.
_normalize_scheme(url) == IF IsHttp(strip(url)) THEN strip(url) ELSE "https://" \o strip(url)

IsLetter(c) ==
    \E i \in 1..Len(UpperChars) : CharAt(UpperChars, i) = c \/ CharAt(LowerChars, i) = c

IsDigit(c) == \E i \in 1..Len(Digits) : CharAt(Digits, i) = c

\* [A-Za-z0-9.-]
IsDomainChar(c) == IsLetter(c) \/ IsDigit(c) \/ c \in {".", "-"}

\* [^\s)]
IsUrlChar(c) == ~IsSpace(c) /\ c # ")"

Min(S) == CHOOSE x \in S : \A y \in S : x <= y
Max(S) == CHOOSE x \in S : \A y \in S : x >= y

\* The last index of the run of characters that starts at i and ends before
\* the first index of `stops` from i on (i - 1 when i itself is one).
RunEnd(s, i, stops) ==
    IF {j \in stops : j >= i} = {} THEN Len(s) ELSE Min({j \in stops : j >= i}) - 1

\* re.search(r"https?://[^\s)]+", s, re.IGNORECASE): the leftmost match, or "".
HttpUrlIn(s) ==
    LET PrefixAt(i) ==
            IF lower(SubSeq(s, i, IF i + 7 <= Len(s) THEN i + 7 ELSE Len(s))) = "https://"
               /\ i + 8 <= Len(s) /\ IsUrlChar(CharAt(s, i + 8))
            THEN 8
            ELSE IF lower(SubSeq(s, i, IF i + 6 <= Len(s) THEN i + 6 ELSE Len(s))) = "http://"
                    /\ i + 7 <= Len(s) /\ IsUrlChar(CharAt(s, i + 7))
            THEN 7
            ELSE 0
        starts == {i \in 1..Len(s) : PrefixAt(i) > 0}
        stops == {j \in 1..Len(s) : ~IsUrlChar(CharAt(s, j))}
    IN  IF starts = {} THEN ""
        ELSE LET i == Min(starts)
             IN  SubSeq(s, i, RunEnd(s, i + PrefixAt(i), stops))

\* DOMAIN_RE.search(s).group(1): the leftmost run of domain characters that
\* holds a dot followed by two letters or more, up to the letters after its
\* last such dot; "" when there is none.
DomainIn(s) ==
    LET stops == {j \in 1..Len(s) : ~IsDomainChar(CharAt(s, j))}
        others == {j \in 1..Len(s) : ~IsLetter(CharAt(s, j))}
        DotsFrom(i) ==
            {d \in (i + 1)..RunEnd(s, i, stops) :
                /\ CharAt(s, d) = "."
                /\ d + 2 <= Len(s)
                /\ IsLetter(CharAt(s, d + 1))
                /\ IsLetter(CharAt(s, d + 2))}
        starts == {i \in 1..Len(s) : IsDomainChar(CharAt(s, i)) /\ DotsFrom(i) # {}}
    IN  IF starts = {} THEN ""
        ELSE LET i == Min(starts)
                 d == Max(DotsFrom(i))
             IN  SubSeq(s, i, RunEnd(s, d + 1, others))

\* _extract_url_from_freeform(text): an explicit http(s) link of the cell,
\* else its first domain-like token with https:// prepended; None when there
\* is neither or the domain is social.
_extract_url_from_freeform(text) ==
    LET FromDomain(dom) ==
            IF Len(dom) > 0 /\ ~_is_social(dom) THEN Str(_normalize_scheme(dom)) ELSE Null
        FromLink(s, link) == IF Len(link) > 0 THEN Str(link) ELSE FromDomain(DomainIn(s))
        From(s) == IF Len(s) = 0 THEN Null ELSE FromLink(s, HttpUrlIn(s))
    IN  From(strip(text))

\* The first index of character c in s at or after i; 0 when there is none.
IndexFrom(s, c, i) ==
    LET at == {j \in i..Len(s) : CharAt(s, j) = c}
    IN  IF at = {} THEN 0 ELSE Min(at)

\* urlparse(raw) for a string without scheme: netloc, path and query.
UrlParts(raw) ==
    LET AtQuery(netloc, rest, qm) ==
            [ netloc |-> netloc,
              path |-> IF qm = 0 THEN rest ELSE SubSeq(rest, 1, qm - 1),
              query |-> IF qm = 0 THEN "" ELSE SubSeq(rest, qm + 1, Len(rest)) ]
        NoFragment(netloc, rest) == AtQuery(netloc, rest, IndexFrom(rest, "?", 1))
        AtFragment(netloc, rest, hash) ==
            NoFragment(netloc, IF hash = 0 THEN rest ELSE SubSeq(rest, 1, hash - 1))
        AtNetlocEnd(afterSlashes, netlocEnd) ==
            AtFragment(SubSeq(afterSlashes, 1, netlocEnd),
                       SubSeq(afterSlashes, netlocEnd + 1, Len(afterSlashes)),
                       IndexFrom(SubSeq(afterSlashes, netlocEnd + 1, Len(afterSlashes)), "#", 1))
        NetlocEnd(hasNetloc, afterSlashes, ends) ==
            IF ~hasNetloc THEN 0
            ELSE IF ends = {} THEN Len(afterSlashes) ELSE Min(ends) - 1
        AfterSlashes(hasNetloc, afterSlashes) ==
            AtNetlocEnd(afterSlashes,
                        NetlocEnd(hasNetloc, afterSlashes,
                                  {j \in 1..Len(afterSlashes) :
                                      CharAt(afterSlashes, j) \in {"/", "?", "#"}}))
    IN  AfterSlashes(StartsWith(raw, "//"),
                     IF StartsWith(raw, "//") THEN SubSeq(raw, 3, Len(raw)) ELSE raw)

RECURSIVE Split(_, _)
\* s.split(c)
Split(s, c) ==
    IF IndexFrom(s, c, 1) = 0 THEN <<s>>
    ELSE <<SubSeq(s, 1, IndexFrom(s, c, 1) - 1)>>
         \o Split(SubSeq(s, IndexFrom(s, c, 1) + 1, Len(s)), c)

PERCENT_CODES ==
    << <<"%3A", ":">>, <<"%2F", "/">>, <<"%3F", "?">>, <<"%3D", "=">>, <<"%26", "&">>,
       <<"%20", " ">>, <<"%2D", "-">>, <<"%2E", ".">>, <<"%25", "%">> >>

RECURSIVE Unquote(_)
\* unquote_plus of a query value, for the escapes of PERCENT_CODES.
Unquote(s) ==
    IF Len(s) = 0 THEN ""
    ELSE IF CharAt(s, 1) = "+" THEN " " \o Unquote(SubSeq(s, 2, Len(s)))
    ELSE IF CharAt(s, 1) = "%" /\ Len(s) >= 3
            /\ \E k \in 1..Len(PERCENT_CODES) : PERCENT_CODES[k][1] = SubSeq(s, 1, 3)
    THEN PERCENT_CODES[CHOOSE k \in 1..Len(PERCENT_CODES) :
                          PERCENT_CODES[k][1] = SubSeq(s, 1, 3)][2]
         \o Unquote(SubSeq(s, 4, Len(s)))
    ELSE CharAt(s, 1) \o Unquote(SubSeq(s, 2, Len(s)))

\* parse_qs(query).get(key, [None])[0]: the first non-blank value of key.
QueryValue(query, key) ==
    LET Named(f, eq) == eq > 0 /\ Unquote(SubSeq(f, 1, eq - 1)) = key /\ eq < Len(f)
        Value(f, eq) == Str(Unquote(SubSeq(f, eq + 1, Len(f))))
        First(fields, hits) ==
            IF hits = {} THEN Null
            ELSE Value(fields[Min(hits)], IndexFrom(fields[Min(hits)], "=", 1))
        Among(fields) ==
            First(fields, {k \in 1..Len(fields) :
                              Named(fields[k], IndexFrom(fields[k], "=", 1))})
    IN  Among(Split(query, "&"))

\* _normalize_ddg_href(raw): an http(s) link as it is; a scheme-less
\* duckduckgo.com/l/ redirect unwrapped to its uddg parameter; else None.
_normalize_ddg_href(raw) ==
    LET Target(uddg) == IF uddg.t = "str" /\ IsHttp(uddg.v) THEN uddg ELSE Null
        Redirect(p) ==
            IF Contains(p.netloc, "duckduckgo.com") /\ StartsWith(p.path, "/l/")
            THEN Target(QueryValue(p.query, "uddg"))
            ELSE Null
        Link(s) ==
            IF Len(s) = 0 THEN Null
            ELSE IF IsHttp(s) THEN Str(s)
            ELSE Redirect(UrlParts(s))
    IN  IF raw.t # "str" THEN Null ELSE Link(strip(raw.v))

\* r.get("href") or r.get("link")
HitLink(r) == IF Truthy(get(r.v, "href")) THEN get(r.v, "href") ELSE get(r.v, "link")

\* The links of the hits that normalize to an accepted URL, in list order.
AcceptedHits(search_results) ==
    SelectSeq([k \in 1..Len(search_results) |->
                  IF Truthy(HitLink(search_results[k]))
                  THEN _normalize_ddg_href(HitLink(search_results[k])) ELSE Null],
              LAMBDA c : Truthy(c) /\ ~_is_social(c.v))

\* A variant of choose_website that consults the search hits before the cell.
choose_website_hits_first(favorite_url, search_results) ==
    LET FavOf(fav) == IF Truthy(fav) /\ ~_is_social(fav.v) THEN fav ELSE Null
        Prefer(hits) ==
            IF Len(hits) > 0 THEN hits[1]
            ELSE FavOf(IF favorite_url.t = "str" /\ Len(strip(favorite_url.v)) > 0
                       THEN _extract_url_from_freeform(favorite_url.v) ELSE Null)
    IN  Prefer(AcceptedHits(search_results))

\* choose_website(favorite_url, search_results): the cell's URL when it has
\* one that is not social, else the first accepted search hit, else None.
choose_website(favorite_url, search_results) ==
    LET FirstOf(hits) == IF Len(hits) > 0 THEN hits[1] ELSE Null
        Prefer(fav) ==
            IF Truthy(fav) /\ ~_is_social(fav.v) THEN fav
            ELSE FirstOf(AcceptedHits(search_results))
    IN  Prefer(IF favorite_url.t = "str" /\ Len(strip(favorite_url.v)) > 0
               THEN _extract_url_from_freeform(favorite_url.v) ELSE Null)

\* ------------------------------------------------------------------------
\* Inputs of the reconciler
\* ------------------------------------------------------------------------
MaxPad == 1
MaxOver == 4
MaxSecLen == 6

RECURSIVE Repeat(_, _)
Repeat(s, k) ==
    IF k = 0 THEN ""
    ELSE IF k = 1 THEN s
    ELSE Repeat(s, k \div 2) \o Repeat(s, k - (k \div 2))

\* A text of n characters: words of four letters, a space after each.
TextOfLen(n) == SubSeq(Repeat("abcd ", (n \div 5) + 1), 1, n)

Padded(s, lead, trail) == Repeat(" ", lead) \o s \o Repeat(" ", trail)

InfoLens ==
    {0} \cup ((MinInfoLen - 1)..(MinInfoLen + 2)) \cup ((ClipLen - 2)..(ClipLen + MaxOver))

InfoInputs ==
    {Null, Num(7)}
    \cup {Str(Padded(TextOfLen(n), a, b)) : n \in InfoLens, a \in 0..MaxPad, b \in 0..MaxPad}

LongName ==
    "The National Fund for Entrepreneurship, Innovation and Sustainable Development "
    \o "of the Greater Levant and North Africa Region"

OrgInputs ==
    { [name |-> Str("Acme Angel Network"), country |-> Null, website |-> Null],
      [name |-> Str("Beta Ventures"), country |-> Str("Jordan"), website |-> Null],
      [name |-> Str("Cedar SYNDICATE"), country |-> Str("Lebanon"), website |-> Null],
      [name |-> Str(LongName), country |-> Str("Egypt"), website |-> Null] }

ClassificationInputs ==
    { Null, Str(""), Str("   "), Str("Angel Investors"), Str("Venture Capital Funds"),
      Str("Universities & Research Centers"), Str("Accelerators"), Str("Hedge Fund"),
      Str(" Angel Investors"), Num(5), Num(0) }

HeuristicInputs == {"", "Angel Investors", "Venture Capital Funds", "Incubators"}

AngelTypeInputs == {Null, Str(""), Str("network"), Str("individual")}

\* stages, ticket_size_usd_min, ticket_size_usd_max, ticket_size_currency
StageInputs ==
    { <<Null, Null, Null, Null>>,
      <<List(<<Str("Seed"), Str("Series A")>>), Num(100000), Num(2000000), Str("USD")>>,
      <<Str("Seed"), Null, Num(500000), Null>>,
      <<List(<<Num(1)>>), Num(1), Null, Str("EUR")>> }

SectorPool ==
    << Str("Health"), Str(" Energy "), Dict(<< <<"name", Str("Education")>> >>),
       Str("Health"), Str("ICT"), Str("Information & Communication Technology (ICT)"),
       Str("Fintech"), Num(7),
       Dict(<< <<"label", Str(" ")>>, <<"value", Str("Agriculture")>> >>), Null,
       Str("Environment"), Dict(<< <<"other", Str("Health")>> >>), Str("Social Impact") >>

SectorInputs ==
    { Null, Str("Health"), Str("  "), Str("Fintech"), Num(7), Bool(TRUE), List(<<>>),
      Dict(<< <<"name", Str("Health")>> >>) }
    \cup {List(SubSeq(SectorPool, w[1], w[2])) :
            w \in {x \in (1..Len(SectorPool)) \X (1..Len(SectorPool)) :
                      x[1] <= x[2] /\ x[2] - x[1] < MaxSecLen}}

InferredInputs ==
    { Null, List(<<>>), List(<<Str("WASH")>>), List(<<Str("ICT"), Str("Energy")>>),
      List(<<Str("Energy"), Str("Energy"), Str("Health"), Str("Education"),
             Str("Agriculture"), Str("Environment")>>) }

SourceInputs ==
    { Null, Str("https://a.org"), List(<<Str("https://a.org")>>),
      List([i \in 1..(SourceCap + 2) |-> Str("https://a.org/" \o IntStr(i))]) }

RECURSIVE PutAll(_, _)
\* A dict with the given pairs; a None value stands for an absent key.
PutAll(d, pairs) ==
    IF Len(pairs) = 0 THEN d
    ELSE PutAll(IF Head(pairs)[2] = Null THEN d ELSE put(d, Head(pairs)[1], Head(pairs)[2]),
                Tail(pairs))

\* The record a model returns, in the prompt's field order.
ModelRecord(org, fc, secs, at, st, ai, srcs) ==
    Dict(PutAll(<<>>,
        << <<"name", org.name>>, <<"country", org.country>>,
           <<"funding_classification", fc>>, <<"sectors", secs>>, <<"angel_type", at>>,
           <<"ticket_size_usd_min", st[2]>>, <<"ticket_size_usd_max", st[3]>>,
           <<"ticket_size_currency", st[4]>>, <<"stages", st[1]>>,
           <<"additional_info", ai>>, <<"sources", srcs>> >>))

SanInput(org, rec, h, inf) ==
    [org |-> org, record |-> rec, heuristic_fc |-> h, inferred_sectors |-> inf]

DefaultOrg == [name |-> Str("Beta Ventures"), country |-> Str("Jordan"), website |-> Null]
NoStages == <<Null, Null, Null, Null>>
ManySectors == List(SubSeq(SectorPool, 3, 9))

\* The classification, the angel type and the stage fields against each other.
ClassificationCases ==
    { SanInput(org, ModelRecord(org, fc, Null, at, st, Null, Null), h, List(<<>>)) :
        org \in OrgInputs, fc \in ClassificationInputs, at \in AngelTypeInputs,
        st \in StageInputs, h \in HeuristicInputs }

\* Every shape of the sectors field against every inferred list.
SectorCases ==
    { SanInput(DefaultOrg, ModelRecord(DefaultOrg, fc, secs, Null, NoStages, Null, srcs),
               "", inf) :
        fc \in {Null, Str("Universities & Research Centers"), Str("Hedge Fund")},
        secs \in SectorInputs, inf \in InferredInputs,
        srcs \in SourceInputs }

\* The note against what the template is built from.
InfoCases ==
    { SanInput(org, ModelRecord(org, fc, secs, Null, NoStages, ai, Null),
               "Investment Firms", List(<<>>)) :
        org \in OrgInputs,
        fc \in {Null, Str("Venture Capital Funds"), Str("Angel Investors"), Str("Hedge Fund")},
        secs \in {Null, ManySectors}, ai \in InfoInputs }

\* sanitize_record is also handed what json.loads returns when it is no object.
NonObjectCases ==
    { SanInput(DefaultOrg, rec, "Investment Firms", List(<<>>)) :
        rec \in {Null, Num(42), Str("text"), List(<<>>)} }

AngelOrgInputs ==
    { [name |-> Str("Delta Group Holdings"), country |-> Str("Jordan"), website |-> Null],
      [name |-> Str("Networking Partners"), country |-> Null, website |-> Null],
      [name |-> Str("SYNDICATE-9"), country |-> Null, website |-> Null],
      [name |-> Str("Gamma Capital"), country |-> Str("Egypt"), website |-> Null],
      [name |-> Null, country |-> Str("Egypt"), website |-> Null] }

\* The angel type the model gave against the name it is derived from.
AngelCases ==
    { SanInput(org, ModelRecord(org, fc, Null, at, NoStages, Null, Null), h, List(<<>>)) :
        org \in AngelOrgInputs,
        fc \in {Null, Str("Angel Investors"), Str("angel investors")},
        at \in AngelTypeInputs \cup {Str("corporate"), Num(0)},
        h \in {"Angel Investors", "Incubators"} }

SanCases ==
    ClassificationCases \cup SectorCases \cup InfoCases \cup NonObjectCases
    \cup AngelCases

NotYet == [t |-> "none"]
Raised == [t |-> "raised"]

Idle == [t |-> "idle"]

\* ------------------------------------------------------------------------
\* The reconciler applied to one input: sanitize, sanitize again, normalize
\* ------------------------------------------------------------------------
RunIdle ==
    /\ indices = <<>>
    /\ pos = 0
    /\ df = <<>>
    /\ results = <<>>
    /\ csv = Idle
    /\ xlsx = Idle
    /\ log = <<>>
    /\ env = <<>>
    /\ saves = <<>>
    /\ faults = 0
    /\ pc = "idle"

CallIdle ==
    /\ call = Idle
    /\ ret = Idle

Init ==
    /\ sanIn \in SanCases
    /\ sanOut = NotYet
    /\ sanAgain = NotYet
    /\ sanCols = NotYet
    /\ RunIdle
    /\ CallIdle

\* record = sanitize_record(org, record, heuristic_fc, inferred_sectors)
Sanitize ==
    /\ sanOut = NotYet
    /\ sanOut' = IF sanitize_raises(sanIn.record) THEN Raised
                 ELSE sanitize_record(sanIn.org, sanIn.record, sanIn.heuristic_fc,
                                      sanIn.inferred_sectors)
    /\ UNCHANGED <<sanIn, sanAgain, sanCols>>
    /\ UNCHANGED <<runVars, callVars>>

\* The sanitized record sanitized once more, with the same arguments.
Resanitize ==
    /\ sanOut.t = "dict"
    /\ sanAgain = NotYet
    /\ sanAgain' = IF sanitize_raises(sanOut) THEN Raised
                   ELSE sanitize_record(sanIn.org, sanOut, sanIn.heuristic_fc,
                                        sanIn.inferred_sectors)
    /\ UNCHANGED <<sanIn, sanOut, sanCols>>
    /\ UNCHANGED <<runVars, callVars>>

\* normalized = normalize_to_columns(record, cfg)
Normalize ==
    /\ sanOut.t = "dict"
    /\ sanCols = NotYet
    /\ sanCols' = IF normalize_raises(sanOut) THEN Raised ELSE normalize_to_columns(sanOut)
    /\ UNCHANGED <<sanIn, sanOut, sanAgain>>
    /\ UNCHANGED <<runVars, callVars>>

Next == Sanitize \/ Resanitize \/ Normalize

Spec == Init /\ [][Next]_vars

\* ------------------------------------------------------------------------
\* Properties of the reconciler (checked under Spec)
\* ------------------------------------------------------------------------
OutInfo == get(sanOut.v, "additional_info")
OutClassification == get(sanOut.v, "funding_classification")

\* C1: sanitize_record is idempotent: sanitizing the sanitized record again,
\* with the same organization, heuristic classification and inferred sectors,
\* gives the same record, field by field and in the same field order, also
\* when the note was clipped.
SanitizeIdempotent == sanAgain # NotYet => sanAgain = sanOut

\* C1 witness: a record was sanitized twice whose note was synthesized (the
\* model gave none) and is longer than 220 characters.
SanitizeIdempotentWitness ==
    /\ sanAgain.t = "dict"
    /\ ~Truthy(get(sanIn.record.v, "additional_info"))
    /\ Len(get(sanAgain.v, "additional_info").v) > ClipLen

\* C2: a sanitized record whose classification is not "Venture Capital Funds"
\* has stages == [] and the three ticket fields None.
NonVentureFieldsCleared ==
    (sanOut.t = "dict" /\ OutClassification # Str("Venture Capital Funds"))
        => /\ get(sanOut.v, "stages") = List(<<>>)
           /\ HasKey(sanOut.v, "stages")
           /\ get(sanOut.v, "ticket_size_usd_min") = Null
           /\ get(sanOut.v, "ticket_size_usd_max") = Null
           /\ get(sanOut.v, "ticket_size_currency") = Null

\* C2 witness: the model supplied stages and a ticket currency for a record
\* that ends with another classification than Venture Capital Funds.
NonVentureFieldsClearedWitness ==
    /\ sanOut.t = "dict"
    /\ OutClassification # Str("Venture Capital Funds")
    /\ Truthy(get(sanIn.record.v, "stages"))
    /\ Truthy(get(sanIn.record.v, "ticket_size_currency"))

\* C3: a sanitized record whose classification is not "Angel Investors" has
\* angel_type None.
NonAngelTypeCleared ==
    (sanOut.t = "dict" /\ OutClassification # Str("Angel Investors"))
        => get(sanOut.v, "angel_type") = Null

\* C3 witness: the model supplied an angel_type for a record that ends with
\* another classification than Angel Investors.
NonAngelTypeClearedWitness ==
    /\ sanOut.t = "dict"
    /\ OutClassification # Str("Angel Investors")
    /\ Truthy(get(sanIn.record.v, "angel_type"))

OutSectors == get(sanOut.v, "sectors").v

\* C4: the sectors of a sanitized record are at most four strings, each of
\* the allow-list, no two equal.
SectorsBoundedAllowedUnique ==
    sanOut.t = "dict"
        => /\ get(sanOut.v, "sectors").t = "list"
           /\ Len(OutSectors) <= SectorCap
           /\ \A i \in 1..Len(OutSectors) :
                 OutSectors[i].t = "str" /\ OutSectors[i].v \in ALLOWED_SECTORS
           /\ \A i, j \in 1..Len(OutSectors) : OutSectors[i] = OutSectors[j] => i = j

\* C4 witness: the model's sectors list named more than four distinct
\* allow-listed sectors, one of them twice, and the record was sanitized.
SectorsBoundedAllowedUniqueWitness ==
    /\ sanOut.t = "dict"
    /\ LET given == SelectSeq(_as_string_sector_list(get(sanIn.record.v, "sectors")),
                              IsAllowedSector)
       IN  /\ Cardinality({given[i] : i \in 1..Len(given)}) > SectorCap
           /\ Len(given) > Cardinality({given[i] : i \in 1..Len(given)})

\* C5: after sanitize_record the classification is one of the ten labels,
\* in the record and in the classification column written from it.
ClassificationInEnum ==
    /\ sanOut.t = "dict"
          => OutClassification.t = "str" /\ OutClassification.v \in FUNDING_CLASSIFICATIONS
    /\ (sanCols # NotYet /\ sanCols # Raised)
          => /\ sanCols.funding_classification.t = "str"
             /\ sanCols.funding_classification.v \in FUNDING_CLASSIFICATIONS

\* C6: after sanitize_record additional_info is a string of at most 220
\* characters.
AdditionalInfoAtMost220 ==
    sanOut.t = "dict" => OutInfo.t = "str" /\ Len(OutInfo.v) <= ClipLen

\* The organization's name in lower case, "" for no name.
NameLower == lower(IF Truthy(sanIn.org.name) THEN sanIn.org.name.v ELSE "")

\* C19: when the classification of the sanitized record is Angel Investors,
\* an angel_type the model supplied is kept as it is, and without one the
\* angel_type is "network" if the lower-cased name of the organization
\* contains "network", "group" or "syndicate", and "individual" otherwise.
AngelTypeDerivedFromName ==
    (sanOut.t = "dict" /\ OutClassification = Str("Angel Investors"))
        => IF Truthy(get(sanIn.record.v, "angel_type"))
           THEN get(sanOut.v, "angel_type") = get(sanIn.record.v, "angel_type")
           ELSE get(sanOut.v, "angel_type")
                   = Str(IF \E w \in {"network", "group", "syndicate"} :
                                Contains(NameLower, w)
                         THEN "network" ELSE "individual")

\* C19 witness: "Acme Angel Network", classified Angel Investors, with no
\* angel_type from the model, is of type network.
AngelTypeDerivedFromNameWitness ==
    /\ sanOut.t = "dict"
    /\ sanIn.org.name = Str("Acme Angel Network")
    /\ OutClassification = Str("Angel Investors")
    /\ ~HasKey(sanIn.record.v, "angel_type")
    /\ get(sanOut.v, "angel_type") = Str("network")

\* The allow-listed sectors of the model's record, as the model gave them.
ModelAllowed ==
    SelectSeq(_as_string_sector_list(get(sanIn.record.v, "sectors")), IsAllowedSector)

\* The allow-listed sectors of the heuristic inference.
InferredAllowed ==
    SelectSeq(_as_string_sector_list(sanIn.inferred_sectors), IsAllowedSector)

\* The positions of q that hold a sector for the first time.
FirstSeenAt(q) == {p \in 1..Len(q) : \A j \in 1..(p - 1) : q[j] # q[p]}

\* out is the first occurrences of q, in q's order, up to the cap.
FirstSeenOf(out, q) ==
    /\ Len(out) = IF Cardinality(FirstSeenAt(q)) < SectorCap
                  THEN Cardinality(FirstSeenAt(q)) ELSE SectorCap
    /\ \A i \in 1..Len(out) :
          \E p \in FirstSeenAt(q) :
              /\ out[i] = Str(q[p])
              /\ Cardinality({x \in FirstSeenAt(q) : x < p}) = i - 1

\* C18: the sectors of a sanitized record come from a strict chain: the
\* model's allow-listed sectors when there is one, whatever was inferred;
\* else the allow-listed inferred sectors when there is one; else the one
\* default of the classification, Education for Universities & Research
\* Centers and Business & Professional Services for every other. The list is
\* never empty and is in first-seen order.
SectorFallbackChain ==
    sanOut.t = "dict"
        => /\ Len(OutSectors) > 0
           /\ IF Len(ModelAllowed) > 0 THEN FirstSeenOf(OutSectors, ModelAllowed)
              ELSE IF Len(InferredAllowed) > 0 THEN FirstSeenOf(OutSectors, InferredAllowed)
              ELSE OutSectors =
                      << Str(IF OutClassification = Str("Universities & Research Centers")
                             THEN "Education"
                             ELSE "Business & Professional Services") >>

\* C18 witness: the model named sectors, none of the allow-list, and the
\* record got the inferred ones.
SectorFallbackChainWitness ==
    /\ sanOut.t = "dict"
    /\ Truthy(get(sanIn.record.v, "sectors"))
    /\ Len(ModelAllowed) = 0
    /\ Len(InferredAllowed) > 1
    /\ OutSectors = [i \in 1..Len(InferredAllowed) |-> Str(InferredAllowed[i])]

\* The default of Universities & Research Centers, when neither the model
\* nor the inference named an allow-listed sector.
SectorDefaultOfUniversities ==
    /\ sanOut.t = "dict"
    /\ Len(ModelAllowed) = 0
    /\ Len(InferredAllowed) = 0
    /\ OutClassification = Str("Universities & Research Centers")
    /\ OutSectors = <<Str("Education")>>

\* ------------------------------------------------------------------------
\* Recovery of the model's output (extract_record)
\* ------------------------------------------------------------------------
RECURSIVE Dumps(_)
\* json.dumps(x): the JSON text of a value, with the default separators.
Dumps(x) ==
    CASE x.t = "null" -> "null"
      [] x.t = "str"  -> "\"" \o x.v \o "\""
      [] x.t = "num"  -> IntStr(x.v)
      [] x.t = "bool" -> IF x.v THEN "true" ELSE "false"
      [] x.t = "list" ->
            "[" \o join(", ", [i \in 1..Len(x.v) |-> Dumps(x.v[i])]) \o "]"
      [] x.t = "dict" ->
            "{" \o join(", ", [i \in 1..Len(x.v) |->
                        "\"" \o x.v[i][1] \o "\": " \o Dumps(x.v[i][2])]) \o "}"

\* The names of the organizations of the sheet.
OrgNames ==
    <<"Acme Angel Network", "Beta Ventures", "Gamma University", "Delta Capital",
      "Epsilon Holdings">>

\* The JSON object a model that follows the instructions answers with.
GoodAnswer(name) ==
    Dict(<< <<"name", Str(name)>>,
            <<"country", Null>>,
            <<"website", Null>>,
            <<"funding_classification", Str(VC)>>,
            <<"sectors", List(<<Str("Health"), Str(ICT_LONG)>>)>>,
            <<"angel_type", Null>>,
            <<"ticket_size_usd_min", Num(100000)>>,
            <<"ticket_size_usd_max", Num(500000)>>,
            <<"ticket_size_currency", Str("USD")>>,
            <<"stages", List(<<Str("Seed")>>)>>,
            <<"additional_info", Str("An early-stage fund backing health and software startups.")>>,
            <<"sources", List(<<Str("https://news.example.org/funding")>>)>>,
            <<"confidence", Num(1)>> >>)

\* The JSON documents that occur in the texts of the model: json.loads is
\* modelled as the inverse of json.dumps over them.
JsonDocs ==
    {GoodAnswer(OrgNames[k]) : k \in 1..Len(OrgNames)}
    \cup {List(<<GoodAnswer(OrgNames[k])>>) : k \in 1..Len(OrgNames)}
    \cup {Num(42), Null}

\* json.loads(text): the document whose JSON text this is, surrounding
\* whitespace ignored; Raised when the text is not a JSON document.
json_loads(text) ==
    LET docs == {v \in JsonDocs : Dumps(v) = strip(text)}
    IN  IF docs = {} THEN Raised ELSE CHOOSE v \in docs : TRUE

\* re.search(r'\{.*\}', out, flags=re.S).group(0): from the first opening
\* brace to the last closing brace after it; "" when there is no match.
BraceBlock(out) ==
    LET open == IndexFrom(out, "{", 1)
        closes == {j \in (open + 1)..Len(out) : CharAt(out, j) = "}"}
    IN  IF open = 0 \/ closes = {} THEN "" ELSE SubSeq(out, open, Max(closes))

SnippetCap == 400

\* A variant of the fallback record that carries the whole raw output.
NonJsonRecord_whole_output(org, out) ==
    Dict(<< <<"name", org.name>>,
            <<"country", org.country>>,
            <<"website", org.website>>,
            <<"classification", Null>>,
            <<"sectors", List(<<>>)>>,
            <<"angel_type", Null>>,
            <<"ticket_size_usd_min", Null>>,
            <<"ticket_size_usd_max", Null>>,
            <<"ticket_size_currency", Null>>,
            <<"stages", List(<<>>)>>,
            <<"notes", Str("Model returned non-JSON. Raw snippet: " \o strip(out))>>,
            <<"sources", List(<<>>)>>,
            <<"confidence", Num(0)>> >>)

\* The record extract_record returns when neither parse succeeds.
NonJsonRecord(org, out) ==
    LET stripped == strip(out)
        snippet == IF Len(stripped) > SnippetCap
                   THEN SubSeq(stripped, 1, SnippetCap) \o "..." ELSE stripped
    IN  Dict(<< <<"name", org.name>>,
                <<"country", org.country>>,
                <<"website", org.website>>,
                <<"classification", Null>>,
                <<"sectors", List(<<>>)>>,
                <<"angel_type", Null>>,
                <<"ticket_size_usd_min", Null>>,
                <<"ticket_size_usd_max", Null>>,
                <<"ticket_size_currency", Null>>,
                <<"stages", List(<<>>)>>,
                <<"notes", Str("Model returned non-JSON. Raw snippet: " \o snippet)>>,
                <<"sources", List(<<>>)>>,
                <<"confidence", Num(0)>> >>)

\* extract_record(...), from the text `out` the provider call returned: the
\* strict parse, else the parse of the brace block, else the fallback record.
extract_record(org, out) ==
    IF json_loads(out) # Raised THEN json_loads(out)
    ELSE IF Len(BraceBlock(out)) > 0 /\ json_loads(BraceBlock(out)) # Raised
    THEN json_loads(BraceBlock(out))
    ELSE NonJsonRecord(org, out)

\* ------------------------------------------------------------------------
\* Evidence gathering
\* ------------------------------------------------------------------------
SearchAttempts == 2

\* safe_search(q, 6) over the outcomes of the successive attempts of
\* search_org, each Raised or a list of hits: the first list among the first
\* two attempts, Raised when both raise.
safe_search(outcomes) ==
    LET ok == {k \in 1..SearchAttempts : outcomes[k] # Raised}
    IN  IF ok = {} THEN Raised ELSE outcomes[Min(ok)]

\* The number of calls of search_org that safe_search makes.
SearchCalls(outcomes) ==
    LET ok == {k \in 1..SearchAttempts : outcomes[k] # Raised}
    IN  IF ok = {} THEN SearchAttempts ELSE Min(ok)

\* trafilatura_extract(u) or fetch_and_parse(session, u): the text of the
\* page in the web, "" for a page that fails or is empty.
FetchText(web, url) == IF HasKey(web, url) THEN get(web, url) ELSE ""

COMMON_PATHS ==
    <<"/about", "/about-us", "/who-we-are", "/programs", "/programmes",
      "/portfolio", "/investments", "/our-investments", "/companies",
      "/what-we-do", "/strategy">>

\* urljoin(base_url, path) for an absolute path: the scheme and host of the
\* base followed by the path.
UrlJoin(base_url, path) ==
    LET marks == {i \in 1..(Len(base_url) - 2) : SubSeq(base_url, i, i + 2) = "://"}
        host == IF marks = {} THEN 1 ELSE Min(marks) + 3
        ends == {j \in host..Len(base_url) : CharAt(base_url, j) \in {"/", "?", "#"}}
    IN  (IF ends = {} THEN base_url ELSE SubSeq(base_url, 1, Min(ends) - 1)) \o path

\* expand_candidate_urls(base_url)
expand_candidate_urls(base_url) ==
    <<base_url>> \o [k \in 1..Len(COMMON_PATHS) |-> UrlJoin(base_url, COMMON_PATHS[k])]

PageCap == 6000

RECURSIVE SetAll(_, _)
\* d[k] = x for each pair <<k, x>>, in order.
SetAll(d, pairs) ==
    IF Len(pairs) = 0 THEN d
    ELSE SetAll(put(d, Head(pairs)[1], Head(pairs)[2]), Tail(pairs))

\* A variant of scrape_site that stops at the first page without text.
scrape_site_stops_at_failure(web, base_url, max_pages) ==
    LET visited == Take(expand_candidate_urls(base_url), max_pages)
        Upto(bad) == IF bad = {} THEN visited ELSE Take(visited, Min(bad) - 1)
        Bundle(found) ==
            SetAll(<<>>, [k \in 1..Len(found) |->
                            <<found[k], Take(FetchText(web, found[k]), PageCap)>>])
    IN  Bundle(Upto({k \in 1..Len(visited) : Len(FetchText(web, visited[k])) = 0}))

\* scrape_site(session, base_url, max_pages): the first max_pages candidates
\* that give text, each with its text cut to 6000 characters.
scrape_site(web, base_url, max_pages) ==
    LET visited == Take(expand_candidate_urls(base_url), max_pages)
        found == SelectSeq(visited, LAMBDA u : Len(FetchText(web, u)) > 0)
    IN  SetAll(<<>>, [k \in 1..Len(found) |->
                        <<found[k], Take(FetchText(web, found[k]), PageCap)>>])

\* The candidates the loop of scrape_site fetches: `if i >= max_pages: break`.
ScrapeVisits(base_url, max_pages) == Take(expand_candidate_urls(base_url), max_pages)

RECURSIVE CollapseSpaces(_)
\* re.sub(r'\s+', ' ', text)
CollapseSpaces(text) ==
    IF Len(text) = 0 THEN ""
    ELSE IF IsSpace(CharAt(text, 1)) THEN " " \o CollapseSpaces(lstrip(text))
    ELSE CharAt(text, 1) \o CollapseSpaces(SubSeq(text, 2, Len(text)))

\* clean_text(text)
clean_text(text) == strip(CollapseSpaces(text))

\* What the two fetchers meet on a page: page.traf is what trafilatura does
\* (Raised, None for no download or no content, or the content) and
\* page.http what session.get does (Raised, or a response with a status and
\* the visible text of its body).
Page(traf, http) == [traf |-> traf, http |-> http]

\* trafilatura_extract(url): "" when the library raises or finds nothing.
trafilatura_extract(page) ==
    IF page.traf = Raised THEN ""
    ELSE IF ~Truthy(page.traf) THEN ""
    ELSE page.traf.v

\* fetch_and_parse(session, url): "" when the get raises, the status is not
\* 200 or the body is empty, else the cleaned text.
fetch_and_parse(page) ==
    IF page.http = Raised THEN ""
    ELSE IF page.http.status # 200 \/ Len(page.http.text) = 0 THEN ""
    ELSE clean_text(page.http.text)

\* trafilatura_extract(u) or fetch_and_parse(session, u)
PageText(page) ==
    IF Len(trafilatura_extract(page)) > 0 THEN trafilatura_extract(page)
    ELSE fetch_and_parse(page)

\* The web of a site whose k-th candidate URL is answered as pages[k]; the
\* candidates after the last of pages do not answer.
SiteWeb(base_url, pages) ==
    [k \in 1..Len(pages) |-> <<expand_candidate_urls(base_url)[k], PageText(pages[k])>>]

BackupHits == 2

\* The backup context: the pages of the first two search hits whose link
\* normalizes to a URL that is not social.
backup_texts(web, sr) ==
    LET urls == [k \in 1..Len(Take(sr, BackupHits)) |-> _normalize_ddg_href(HitLink(sr[k]))]
        Texts(found) ==
            SetAll(<<>>, [k \in 1..Len(found) |-> <<found[k].v, FetchText(web, found[k].v)>>])
    IN  Texts(SelectSeq(urls, LAMBDA u : /\ Truthy(u)
                                          /\ ~_is_social(u.v)
                                          /\ Len(FetchText(web, u.v)) > 0))

JoinedCap == 8000

\* _joined_text(texts)[:8000]
_joined_text(texts) == Take(join(" ", [k \in 1..Len(texts) |-> texts[k][2]]), JoinedCap)

\* ------------------------------------------------------------------------
\* The sheet and the outside world of one row
\* ------------------------------------------------------------------------
\* A blank cell as pandas reads it: float nan, which is truthy and whose
\* str() is "nan".
NaN == [t |-> "nan"]

\* str(row.get(col) or "").strip()
CellText(cell) ==
    strip(IF cell.t = "nan" THEN "nan" ELSE IF Truthy(cell) THEN PyStr(cell) ELSE "")

\* The kinds of rows of the sheet; the last one has no name.
SheetRows ==
    << [name |-> Str(OrgNames[1]), country |-> Str("Jordan"),
        website |-> Str("See our page (acme-fund.org)")],
       [name |-> Str(OrgNames[2]), country |-> NaN, website |-> Str(" ")],
       [name |-> Str(OrgNames[3]), country |-> Str("Egypt"),
        website |-> Str("https://gamma-university.edu/en/")],
       [name |-> Str(OrgNames[4]), country |-> Str("Lebanon"),
        website |-> Str("https://www.linkedin.com/company/delta")],
       [name |-> Str(OrgNames[5]), country |-> Str("Morocco"), website |-> NaN],
       [name |-> Str("  "), country |-> Str("Egypt"), website |-> Str("")] >>

\* The hits of a search that answers.
SearchHits ==
    List(<< Dict(<< <<"title", Str("Beta Ventures")>>,
                    <<"href", Str("//duckduckgo.com/l/?uddg=https%3A%2F%2Fbeta-ventures.com%2F&rut=1")>>,
                    <<"body", Str("Venture capital for startups")>> >>),
            Dict(<< <<"title", Str("Beta Ventures raises a fund")>>,
                    <<"link", Str("https://news.example.org/funding")>> >>),
            Dict(<< <<"title", Str("Beta Ventures | LinkedIn")>>,
                    <<"href", Str("https://www.linkedin.com/company/beta")>> >>) >>)

\* The outcomes of the successive attempts of the search.
SearchOutcomes(kind) ==
    CASE kind = "hits"  -> <<SearchHits, SearchHits>>
      [] kind = "retry" -> <<Raised, SearchHits>>
      [] kind = "fail"  -> <<Raised, Raised>>

\* The pages of the web that give text.
WebPages(kind) ==
    CASE kind = "down" -> <<>>
      [] kind = "mirror" ->
            << <<"https://news.example.org/funding",
                 "Beta Ventures closed a fund for solar and agritech startups.">> >>
      [] kind = "up" ->
            << <<"https://acme-fund.org",
                 "Acme is a network of angels backing digital health founders.">>,
               <<"https://acme-fund.org/about", "Our members co-invest in seed rounds.">>,
               <<"https://beta-ventures.com/",
                 "Beta Ventures is a venture capital firm for software companies.">>,
               <<"https://gamma-university.edu/about",
                 "A university with an incubator and training programmes.">>,
               <<"https://news.example.org/funding",
                 "Beta Ventures closed a fund for solar and agritech startups.">> >>

\* What the provider call gives for an organization: Raised, or its text.
ModelReply(kind, name) ==
    CASE kind = "raises" -> Raised
      [] kind = "object" -> Str(Dumps(GoodAnswer(name)))
      [] kind = "prose_object" ->
            Str("Here is the JSON you asked for:\n" \o Dumps(GoodAnswer(name))
                \o "\nLet me know if you need more.")
      [] kind = "prose" -> Str("I could not find reliable information about it.")
      [] kind = "list" -> Str(Dumps(List(<<GoodAnswer(name)>>)))
      [] kind = "number" -> Str("42")
      [] kind = "null" -> Str("null")

\* The world of a row in which everything answers as intended.
Normal == [search |-> "hits", web |-> "up", model |-> "object"]

\* The world of a row in which the search, every page and the model fail.
AllFail == [search |-> "fail", web |-> "down", model |-> "raises"]

\* The worlds a row can meet: the normal one first, then the faulty ones.
RowEnvs ==
    << Normal,
       AllFail,
       [Normal EXCEPT !.search = "fail"],
       [Normal EXCEPT !.search = "retry"],
       [Normal EXCEPT !.web = "down"],
       [Normal EXCEPT !.web = "mirror"],
       [Normal EXCEPT !.model = "raises"],
       [Normal EXCEPT !.model = "prose_object"],
       [Normal EXCEPT !.model = "prose"],
       [Normal EXCEPT !.model = "list"],
       [Normal EXCEPT !.model = "number"],
       [Normal EXCEPT !.model = "null"] >>

\* ------------------------------------------------------------------------
\* One row of the loop of main()
\* ------------------------------------------------------------------------
MaxPagesPerSite == 2

\* The output columns of a row nothing was written to.
BlankCols ==
    [ funding_classification |-> Null, sector |-> Null, ticket_size_vc |-> Null,
      angel_type |-> Null, note |-> Null ]

\* org = {"name": ..., "country": ... or None, "website": ... or None}
Org(cells) ==
    [ name |-> Str(CellText(cells.name)),
      country |-> IF Len(CellText(cells.country)) > 0
                  THEN Str(CellText(cells.country)) ELSE Null,
      website |-> IF Len(CellText(cells.website)) > 0
                  THEN Str(CellText(cells.website)) ELSE Null ]

\* A variant of the fallback record that carries an error text as its note.
HeuristicRecord_error_note(org, heuristic_fc) ==
    Dict(<< <<"name", org.name>>,
            <<"country", org.country>>,
            <<"website", org.website>>,
            <<"funding_classification", Str(heuristic_fc)>>,
            <<"sectors", List(<<>>)>>,
            <<"angel_type", Null>>,
            <<"ticket_size_usd_min", Null>>,
            <<"ticket_size_usd_max", Null>>,
            <<"ticket_size_currency", Null>>,
            <<"stages", List(<<>>)>>,
            <<"additional_info", Str("LLM extraction failed")>>,
            <<"sources", List(<<>>)>>,
            <<"confidence", Num(0)>> >>)

\* The record main() builds when extract_record raises.
HeuristicRecord(org, heuristic_fc) ==
    Dict(<< <<"name", org.name>>,
            <<"country", org.country>>,
            <<"website", org.website>>,
            <<"funding_classification", Str(heuristic_fc)>>,
            <<"sectors", List(<<>>)>>,
            <<"angel_type", Null>>,
            <<"ticket_size_usd_min", Null>>,
            <<"ticket_size_usd_max", Null>>,
            <<"ticket_size_currency", Null>>,
            <<"stages", List(<<>>)>>,
            <<"additional_info", Null>>,
            <<"sources", List(<<>>)>>,
            <<"confidence", Num(0)>> >>)

\* A variant of "Search if needed" that searches for every row.
SearchIfNeeded_every_row(org0, outcomes) ==
    LET Chosen(sr) ==
            [ org |-> [org0 EXCEPT !.website = choose_website(org0.website, sr)],
              sr |-> sr,
              searches |-> SearchCalls(outcomes) ]
    IN  Chosen(IF safe_search(outcomes) # Raised THEN safe_search(outcomes).v ELSE <<>>)

\* "Search if needed" and the choice of the website, for the cells `org0`
\* of the row and the outcomes of the attempts of the search.
SearchIfNeeded(org0, outcomes) ==
    LET searched == ~Truthy(org0.website)
        Chosen(sr) ==
            [ org |-> [org0 EXCEPT !.website = choose_website(org0.website, sr)],
              sr |-> sr,
              searches |-> IF searched THEN SearchCalls(outcomes) ELSE 0 ]
    IN  Chosen(IF searched /\ safe_search(outcomes) # Raised
               THEN safe_search(outcomes).v ELSE <<>>)

\* "Scrape texts": the pages of the website, else the backup context.
ScrapeTexts(web, s) ==
    LET Backup(site) ==
            IF Len(site) = 0 /\ Len(s.sr) > 0 THEN backup_texts(web, s.sr) ELSE site
    IN  [ org |-> s.org, searches |-> s.searches, hits |-> Len(s.sr),
          texts |-> Backup(IF Truthy(s.org.website)
                           THEN scrape_site(web, s.org.website.v, MaxPagesPerSite)
                           ELSE <<>>) ]

\* "Heuristic classification" and "Sector inference", from the joined text.
Heuristics(s) ==
    LET From(joined) ==
            [ org |-> s.org, searches |-> s.searches, hits |-> s.hits, texts |-> s.texts,
              heuristic_fc |-> heuristic_funding_classification(s.org.name.v, joined),
              inferred_sectors |-> StrList(infer_sectors_multi(joined)) ]
    IN  From(_joined_text(s.texts))

\* "LLM extraction": the record of extract_record, or the heuristic record
\* when the call raises.
LlmExtraction(reply, s) ==
    [ org |-> s.org, searches |-> s.searches, hits |-> s.hits, texts |-> s.texts,
      heuristic_fc |-> s.heuristic_fc, inferred_sectors |-> s.inferred_sectors,
      record |-> IF reply = Raised THEN HeuristicRecord(s.org, s.heuristic_fc)
                 ELSE extract_record(s.org, reply.v) ]

\* "Sanitize & normalize": the normalized columns, or that one of the two
\* calls raised.
SanitizeAndNormalize(s) ==
    LET Columns(clean, raised) ==
            [ raised |-> raised,
              org |-> s.org,
              cols |-> IF raised THEN BlankCols ELSE normalize_to_columns(clean),
              searches |-> s.searches,
              hits |-> s.hits,
              texts |-> s.texts,
              heuristic_fc |-> s.heuristic_fc ]
        Reconciled(clean) ==
            Columns(clean, sanitize_raises(s.record) \/ normalize_raises(clean))
    IN  Reconciled(sanitize_record(s.org, s.record, s.heuristic_fc, s.inferred_sectors))

\* The body of the loop for a row with a name, up to normalize_to_columns,
\* in the world e: whether it raised, the organization with its resolved
\* website, the normalized columns, and what was gathered on the way.
ProcessOrg(cells, e) ==
    SanitizeAndNormalize(
        LlmExtraction(ModelReply(e.model, CellText(cells.name)),
            Heuristics(
                ScrapeTexts(WebPages(e.web),
                    SearchIfNeeded(Org(cells), SearchOutcomes(e.search))))))

\* ProcessOrg for every kind of row and every world.
RowOutcome ==
    [c \in 1..Len(SheetRows), k \in 1..Len(RowEnvs) |-> ProcessOrg(SheetRows[c], RowEnvs[k])]

\* ------------------------------------------------------------------------
\* The run: the loop over the selected rows, its checkpoints, the final save
\* ------------------------------------------------------------------------
MaxRows == 14
MaxFaults == 1
MaxStart == 1

Rows == 0..(MaxRows - 1)

\* The kind of row i of the sheet, an index of SheetRows: the sheet repeats
\* the kinds in order.
RowKind(i) == (i % Len(SheetRows)) + 1

\* indices, for --start: the rows from the start offset on.  The sheet is
\* fresh, so --only-missing and --resume would select every row.
Selected(start) == [k \in 1..(MaxRows - start) |-> start + k - 1]

CheckpointEvery == 10

\* len(results) % 10 == 0
CheckpointDue(count) == count % CheckpointEvery = 0

\* The row body reaches the write of its columns when nothing raised before.
ReachesWrite(r) == ~r.raised

\* res = {"index": i, **org, **normalized}
Result(i, r) ==
    [ index |-> i, name |-> r.org.name, country |-> r.org.country,
      website |-> r.org.website,
      funding_classification |-> r.cols.funding_classification,
      sector |-> r.cols.sector, ticket_size_vc |-> r.cols.ticket_size_vc,
      angel_type |-> r.cols.angel_type, note |-> r.cols.note ]

\* The outcomes of a save: both files written, to_csv raises (no file is
\* written), to_excel raises (the CSV is written, the spreadsheet is not).
SaveOutcomes == {"ok", "csv_raises", "xlsx_raises"}

NoFile == [t |-> "nofile"]

RunInit ==
    /\ sanIn = Idle
    /\ sanOut = Idle
    /\ sanAgain = Idle
    /\ sanCols = Idle
    /\ indices \in {Selected(start) : start \in 0..MaxStart}
    /\ pos = 0
    /\ df = [i \in Rows |-> BlankCols]
    /\ results = <<>>
    /\ csv = NoFile
    /\ xlsx = NoFile
    /\ log = [i \in Rows |-> ""]
    /\ env = [i \in Rows |-> Idle]
    /\ saves = <<>>
    /\ faults = 0
    /\ pc = "loop"
    /\ CallIdle

\* An iteration for a row without a name: logged, nothing else.
SkipRow ==
    /\ pc = "loop"
    /\ pos < Len(indices)
    /\ Len(CellText(SheetRows[RowKind(indices[pos + 1])].name)) = 0
    /\ log' = [log EXCEPT ![indices[pos + 1]] = "skipped"]
    /\ pos' = pos + 1
    /\ UNCHANGED <<sanVars, callVars, indices, df, results, csv, xlsx, env, saves, faults, pc>>

\* An iteration for a row with a name, in the world k and with the save
\* outcome s: the row body, the write of the columns, the appended result,
\* the periodic save, and the except clause for whatever raised.
ProcessRow ==
    /\ pc = "loop"
    /\ pos < Len(indices)
    /\ Len(CellText(SheetRows[RowKind(indices[pos + 1])].name)) > 0
    /\ \E k \in 1..Len(RowEnvs), s \in SaveOutcomes :
       \E r \in {RowOutcome[RowKind(indices[pos + 1]), k]} :
          LET i == indices[pos + 1]
              written == ReachesWrite(r)
              appended == IF written THEN Append(results, Result(i, r)) ELSE results
              due == written /\ CheckpointDue(Len(appended))
              cost == (IF k = 1 THEN 0 ELSE 1) + (IF s = "ok" THEN 0 ELSE 1)
          IN  /\ faults + cost <= MaxFaults
              /\ (s # "ok") => due
              /\ df' = IF written THEN [df EXCEPT ![i] = r.cols] ELSE df
              /\ results' = appended
              /\ saves' = IF due THEN Append(saves, [rows |-> Len(appended), final |-> FALSE])
                          ELSE saves
              /\ csv' = IF due /\ s # "csv_raises" THEN appended ELSE csv
              /\ xlsx' = IF due /\ s = "ok" THEN df' ELSE xlsx
              /\ log' = [log EXCEPT ![i] = IF written /\ (due => s = "ok")
                                           THEN "done" ELSE "failed"]
              /\ env' = [env EXCEPT ![i] = [world |-> RowEnvs[k],
                                            save |-> IF due THEN s ELSE "none",
                                            searches |-> r.searches,
                                            hits |-> r.hits]]
              /\ faults' = faults + cost
    /\ pos' = pos + 1
    /\ UNCHANGED <<sanVars, callVars, indices, pc>>

\* The final save after the loop; an exception here is not caught.
FinalSave ==
    /\ pc = "loop"
    /\ pos = Len(indices)
    /\ \E s \in SaveOutcomes :
          /\ faults + (IF s = "ok" THEN 0 ELSE 1) <= MaxFaults
          /\ saves' = Append(saves, [rows |-> Len(results), final |-> TRUE])
          /\ csv' = IF s # "csv_raises" THEN results ELSE csv
          /\ xlsx' = IF s = "ok" THEN df ELSE xlsx
          /\ faults' = faults + (IF s = "ok" THEN 0 ELSE 1)
          /\ pc' = IF s = "ok" THEN "done" ELSE "crashed"
    /\ UNCHANGED <<sanVars, callVars, indices, pos, df, results, log, env>>

RunNext == SkipRow \/ ProcessRow \/ FinalSave

RunSpec == RunInit /\ [][RunNext]_vars

\* ------------------------------------------------------------------------
\* Properties of the run
\* ------------------------------------------------------------------------
\* The row body ran for row i.
Ran(i) == env[i] # Idle

\* A result was appended for row i.
HasResult(i) == \E k \in 1..Len(results) : results[k].index = i

\* The number of results in the CSV of the latest checkpoint.
CsvRows == IF csv = NoFile THEN 0 ELSE Len(csv)

\* The save attempts of the loop, without the final one.
PeriodicSaves == SelectSeq(saves, LAMBDA x : ~x.final)

\* C7: a selected row with a name whose search, page fetches and model call
\* all fail still has its output columns written: the classification column
\* is heuristic_funding_classification(name, "") and the note column is the
\* non-empty description synthesized for that classification and its
\* default sector; the row is not left blank.
AllFailRowStillWritten ==
    \A i \in Rows :
        (Ran(i) /\ env[i].world = AllFail) =>
            LET org == Org(SheetRows[RowKind(i)])
                fc == heuristic_funding_classification(org.name.v, "")
            IN  /\ df[i].funding_classification = Str(fc)
                /\ df[i].note =
                      synth_additional_info(org.name.v, org.country, Str(fc),
                          <<map_sector_label_for_sheet(DEFAULT_SECTOR_BY_FC(Str(fc)))>>)
                /\ Truthy(df[i].note)
                /\ df[i] # BlankCols
                /\ HasResult(i)

\* A row with a blank website cell met two failing search attempts, dead
\* pages and a failing model, and was written.
AllFailRowStillWrittenWitness ==
    \E i \in Rows :
        /\ Ran(i)
        /\ env[i].world = AllFail
        /\ RowOutcome[RowKind(i), 2].searches = SearchAttempts
        /\ log[i] = "done"
        /\ Truthy(df[i].note)

\* C8: an exception at any step of a row never ends the loop: the row that
\* failed keeps its output columns unchanged and has no result appended,
\* every later selected row is processed, and the final save is reached.
FailedRowLeftUntouched ==
    /\ \A i \in Rows : log[i] = "failed" => (df[i] = BlankCols /\ ~HasResult(i))
    /\ pc = "loop" => ENABLED RunNext
    /\ pc # "loop" =>
          /\ \A k \in 1..Len(indices) : log[indices[k]] # ""
          /\ Len(saves) > 0 /\ saves[Len(saves)].final

\* C9: whatever text the provider returns (a JSON list, number or null
\* included), the row ends with its output columns written and its result
\* appended: malformed output never makes the row fail.
MalformedOutputRecovered ==
    \A i \in Rows :
        (Ran(i) /\ env[i].world.model # "raises") => (df[i] # BlankCols /\ HasResult(i))

\* C10: a checkpoint is persisted exactly when the number of successfully
\* processed rows reaches a multiple of 10 and once more after the last
\* row; fewer than 10 successfully processed rows are absent from the latest
\* checkpoint; skipped and failed rows do not advance the count.
CheckpointEveryTenRows ==
    /\ Len(PeriodicSaves) = Len(results) \div CheckpointEvery
    /\ \A k \in 1..Len(PeriodicSaves) : PeriodicSaves[k].rows = k * CheckpointEvery
    /\ pc # "loop" <=> (Len(saves) > 0 /\ saves[Len(saves)].final)
    /\ Cardinality({i \in Rows : log[i] = "done"}) - CsvRows < CheckpointEvery
    /\ Len(results) = Cardinality({i \in Rows : log[i] = "done"})

\* ------------------------------------------------------------------------
\* The Ollama client
\* ------------------------------------------------------------------------
\* The outcome of requests.post on one endpoint is either an exception of
\* requests ([kind |-> "raises", error]) or a response ([kind |-> "response",
\* status, json, text, data]: `json` tells whether the body is JSON, `data`
\* is the parsed body, `text` the body as text).
OLLAMA_BASE == "http://localhost:11434"

ENDPOINTS == << <<"/api/generate", "generate">>, <<"/api/chat", "chat">> >>

RECURSIVE _first_string_leaf(_)
\* _first_string_leaf(obj): a string itself, else the first non-empty string
\* found in the values of a dict or the items of a list, else None.
_first_string_leaf(obj) ==
    IF obj.t = "str" THEN obj
    ELSE IF obj.t = "dict"
    THEN LET found == SelectSeq([k \in 1..Len(obj.v) |-> _first_string_leaf(obj.v[k][2])],
                                Truthy)
         IN  IF Len(found) > 0 THEN found[1] ELSE Null
    ELSE IF obj.t = "list"
    THEN LET found == SelectSeq([k \in 1..Len(obj.v) |-> _first_string_leaf(obj.v[k])],
                                Truthy)
         IN  IF Len(found) > 0 THEN found[1] ELSE Null
    ELSE Null

\* The tail of both dialects: the first string leaf, else "".
LeafOrEmpty(data) ==
    IF Truthy(_first_string_leaf(data)) THEN _first_string_leaf(data) ELSE Str("")

RECURSIVE Flatten(_)
Flatten(q) == IF Len(q) = 0 THEN <<>> ELSE Head(q) \o Flatten(Tail(q))

\* The strings among the values of the dicts of data["results"].
ResultTexts(items) ==
    Flatten([k \in 1..Len(items) |->
                IF items[k].t = "dict"
                THEN LET vals == [j \in 1..Len(items[k].v) |-> items[k].v[j][2]]
                         strs == SelectSeq(vals, LAMBDA x : x.t = "str")
                     IN  [j \in 1..Len(strs) |-> strs[j].v]
                ELSE <<>>])

\* What the generate branch returns for a response that passed
\* raise_for_status.
GenerateText(r) ==
    IF ~r.json THEN Str(r.text)
    ELSE IF r.data.t = "dict" /\ HasKey(r.data.v, "response")
            /\ get(r.data.v, "response").t = "str"
    THEN get(r.data.v, "response")
    ELSE IF r.data.t = "dict" /\ HasKey(r.data.v, "results")
            /\ get(r.data.v, "results").t = "list"
            /\ Len(ResultTexts(get(r.data.v, "results").v)) > 0
    THEN Str(join("\n", ResultTexts(get(r.data.v, "results").v)))
    ELSE LeafOrEmpty(r.data)

\* data.get(key) of a dict, None when the key is absent.
GetOrNone(d, key) == IF HasKey(d, key) THEN get(d, key) ELSE Null

\* The chat branch on choices[0] when it is a dict: its message content if
\* truthy, else its own content if a string, else NotYet (nothing returned).
FirstChoiceText(first) ==
    IF HasKey(first.v, "message") /\ get(first.v, "message").t = "dict"
       /\ Truthy(GetOrNone(get(first.v, "message").v, "content"))
    THEN GetOrNone(get(first.v, "message").v, "content")
    ELSE IF HasKey(first.v, "content") /\ get(first.v, "content").t = "str"
    THEN get(first.v, "content")
    ELSE NotYet

\* What the chat branch returns for a response that passed raise_for_status.
ChatText(r) ==
    IF ~r.json THEN Str(r.text)
    ELSE IF r.data.t # "dict" THEN LeafOrEmpty(r.data)
    ELSE LET choices == GetOrNone(r.data.v, "choices")
             viaChoice == IF choices.t = "list" /\ Len(choices.v) > 0
                             /\ choices.v[1].t = "dict"
                          THEN FirstChoiceText(choices.v[1]) ELSE NotYet
         IN  IF viaChoice # NotYet THEN viaChoice
             ELSE IF HasKey(r.data.v, "message") /\ get(r.data.v, "message").t = "dict"
             THEN (IF HasKey(get(r.data.v, "message").v, "content")
                   THEN get(get(r.data.v, "message").v, "content") ELSE Str(""))
             ELSE LeafOrEmpty(r.data)

\* The endpoint is given up: requests.post raised, the status is 404, or
\* raise_for_status raises HTTPError for another 4xx or 5xx status.
EndpointFails(r) == r.kind = "raises" \/ r.status >= 400

\* last_exc after the failure r on the endpoint of path ep.
LastExc(r, ep) ==
    IF r.kind = "raises" THEN r.error
    ELSE IF r.status = 404 THEN "404 " \o OLLAMA_BASE \o ep
    ELSE "HTTPError " \o IntStr(r.status)

\* raise RuntimeError(f"... Last error: {last_exc}")
RuntimeError(last_exc) == [t |-> "raised", error |-> "RuntimeError", last_exc |-> last_exc]

RECURSIVE OllamaFrom(_, _, _)
\* The loop over the endpoints from endpoint k on, responses[k] being the
\* outcome of the post on endpoint k: the value returned or the error
\* raised, and the number of endpoints posted to.
OllamaFrom(responses, k, last_exc) ==
    IF k > Len(ENDPOINTS) THEN [out |-> RuntimeError(last_exc), posts |-> k - 1]
    ELSE IF EndpointFails(responses[k])
    THEN OllamaFrom(responses, k + 1, LastExc(responses[k], ENDPOINTS[k][1]))
    ELSE [out |-> IF ENDPOINTS[k][2] = "generate" THEN GenerateText(responses[k])
                  ELSE ChatText(responses[k]),
          posts |-> k]

\* A variant of call_ollama that goes on to the chat endpoint only after a
\* 404 and raises at once when the post on the generate endpoint raises.
call_ollama_chat_only_after_404(responses) ==
    IF responses[1].kind = "raises"
    THEN [out |-> RuntimeError(LastExc(responses[1], ENDPOINTS[1][1])), posts |-> 1]
    ELSE OllamaFrom(responses, 1, Null)

\* call_ollama(model, prompt, max_tokens, temperature)
call_ollama(responses) == OllamaFrom(responses, 1, Null)

\* ------------------------------------------------------------------------
\* The stage of a ticket
\* ------------------------------------------------------------------------
\* An amount in dollars is a float: [t |-> "num", v |-> n, half |-> h] is
\* the amount n, or n + 0.5 when h holds, so that both sides of every
\* integer bound are amounts.
Amount(n, h) == [t |-> "num", v |-> n, half |-> h]

\* k <= amount_usd
AtLeast(amount_usd, k) == amount_usd.v >= k

\* A variant of the comparison that is strict: amount_usd < k.
AtMost_strict(amount_usd, k) == amount_usd.v < k

\* amount_usd <= k
AtMost(amount_usd, k) == amount_usd.v < k \/ (amount_usd.v = k /\ ~amount_usd.half)

\* k < amount_usd
Above(amount_usd, k) == amount_usd.v > k \/ (amount_usd.v = k /\ amount_usd.half)

\* A variant of infer_stage_from_ticket whose first range excludes 500000.
infer_stage_from_ticket_open_preseed(amount_usd) ==
    IF amount_usd = Null THEN Null
    ELSE IF AtLeast(amount_usd, 100000) /\ amount_usd.v < 500000 THEN Str("Pre-seed")
    ELSE IF Above(amount_usd, 500000) /\ AtMost(amount_usd, 2000000) THEN Str("Seed")
    ELSE IF Above(amount_usd, 2000000) /\ AtMost(amount_usd, 10000000) THEN Str("Series A")
    ELSE IF Above(amount_usd, 10000000) /\ AtMost(amount_usd, 30000000) THEN Str("Series B")
    ELSE IF Above(amount_usd, 30000000) THEN Str("Series C")
    ELSE Null

\* infer_stage_from_ticket(amount_usd)
infer_stage_from_ticket(amount_usd) ==
    IF amount_usd = Null THEN Null
    ELSE IF AtLeast(amount_usd, 100000) /\ AtMost(amount_usd, 500000) THEN Str("Pre-seed")
    ELSE IF Above(amount_usd, 500000) /\ AtMost(amount_usd, 2000000) THEN Str("Seed")
    ELSE IF Above(amount_usd, 2000000) /\ AtMost(amount_usd, 10000000) THEN Str("Series A")
    ELSE IF Above(amount_usd, 10000000) /\ AtMost(amount_usd, 30000000) THEN Str("Series B")
    ELSE IF Above(amount_usd, 30000000) THEN Str("Series C")
    ELSE Null

\* ------------------------------------------------------------------------
\* The helper functions, each applied to one input
\* ------------------------------------------------------------------------
SanIdle ==
    /\ sanIn = Idle
    /\ sanOut = Idle
    /\ sanAgain = Idle
    /\ sanCols = Idle

\* Links of search hits: redirects of DuckDuckGo with and without scheme,
\* direct links, and values that are no link.
LinkInputs ==
    { Str("https://duckduckgo.com/l/?uddg=https%3A%2F%2Fexample.org%2F&rut=x"),
      Str("//duckduckgo.com/l/?uddg=https%3A%2F%2Fexample.org%2F&rut=x"),
      Str("http://duckduckgo.com/l/?rut=x&uddg=http%3A%2F%2Fb.org%2Fa+b"),
      Str("//duckduckgo.com/l/?rut=1&uddg=http%3A%2F%2Fb.org%2Fa+b"),
      Str("//duckduckgo.com/l/?uddg=https%3A%2F%2Fb.org%3Fq%3D1%26r%3D2#frag"),
      Str("//duckduckgo.com/l/?uddg=ftp%3A%2F%2Fb.org"),
      Str("//duckduckgo.com/l/?rut=1"),
      Str("//duckduckgo.com/x/?uddg=https%3A%2F%2Fb.org"),
      Str("//html.duckduckgo.com/l/?uddg=https%3A%2F%2Fb.org"),
      Str("duckduckgo.com/l/?uddg=https%3A%2F%2Fb.org"),
      Str(" https://acme-fund.org/ "),
      Str("https://www.linkedin.com/company/beta"),
      Str("ftp://b.org"),
      Str("  "),
      Null }

\* url = _normalize_ddg_href(raw)
NormalizeLink ==
    /\ call.fn = "_normalize_ddg_href"
    /\ ret = NotYet
    /\ ret' = _normalize_ddg_href(call.raw)
    /\ UNCHANGED <<call, sanVars, runVars>>

\* Website cells: links, bare domains, free text, social links, blanks.
CellInputs ==
    { Str("See our page (acme-fund.org)"), Str("https://acme-fund.org"),
      Str("acme-fund.org"), Str("www.beta-ventures.com/about us"),
      Str("HTTP://Gamma.io/x) y"), Str("visit https://a.org, or http://b.org"),
      Str("contact: info@delta.co.uk now"), Str("foo.c bar.de/path?x=1"),
      Str("linkedin.com/company/acme"), Str("https://www.linkedin.com/in/x"),
      Str("https://x.com/acme"), Str("facebook.com/acme or acme.org"),
      Str("https://www.microsoft.com/en-us"), Str("netflix.com/about"),
      Str("https://acme-fund.org/team?ref=linkedin.com"),
      Str("no website"), Str("http://"), Str("a.b"), Str("nan"), Str("  "), Str(""),
      Null }

\* A search hit with its link under `key`.
Hit(key, link) == Dict(<< <<"title", Str("Beta Ventures")>>, <<key, Str(link)>> >>)

\* Lists of search hits.
HitLists ==
    { <<>>,
      SearchHits.v,
      << Hit("href", "https://www.linkedin.com/company/beta"),
         Hit("link", "https://beta-ventures.com/"),
         Hit("href", "https://news.example.org/funding") >>,
      << Hit("href", "https://twitter.com/beta"),
         Hit("href", "https://www.facebook.com/beta") >>,
      << Hit("href", "https://www.instagram.com/beta"),
         Hit("href", "https://www.reddit.com/r/beta"),
         Hit("href", "https://beta-ventures.com/") >>,
      << Hit("href", "ftp://beta-ventures.com/"),
         Dict(<< <<"title", Str("Beta Ventures")>> >>),
         Dict(<< <<"href", Str("")>>,
                 <<"link", Str("//duckduckgo.com/l/?uddg=http%3A%2F%2Fb.org%2Fa+b")>> >>),
         Hit("href", "https://beta-ventures.com/") >>,
      << Hit("href", "//duckduckgo.com/l/?uddg=https%3A%2F%2Fwww.linkedin.com%2Fcompany%2Fbeta"),
         Hit("href", "https://duckduckgo.com/l/?uddg=https%3A%2F%2Fexample.org%2F&rut=x") >> }

\* website = choose_website(org.get("website"), sr)
ChooseWebsite ==
    /\ call.fn = "choose_website"
    /\ ret = NotYet
    /\ ret' = choose_website(call.favorite_url, call.search_results)
    /\ UNCHANGED <<call, sanVars, runVars>>

\* The JSON text of the answer of a model that follows the instructions.
AnswerText == Dumps(GoodAnswer(OrgNames[2]))

\* What the provider call returns: JSON, JSON inside prose, prose with
\* further braces, prose without JSON of several lengths, and no text.
RawOutputs ==
    { Str(AnswerText),
      Str("  " \o AnswerText \o "\n"),
      Str("Here is the JSON you asked for:\n" \o AnswerText \o "\nLet me know if you need more."),
      Str("Sure! " \o AnswerText),
      Str("Answer: " \o AnswerText \o " I used the schema {name, country, website}."),
      Str(AnswerText \o "}"),
      Str("Schema {name, country}: " \o AnswerText),
      Str(AnswerText \o "\n" \o Dumps(GoodAnswer(OrgNames[4]))),
      Str("I could not find reliable information about it."),
      Str("{not json at all"),
      Str("{'name': 'Beta Ventures'}"),
      Str(""),
      Null }
    \cup {Str(Padded(TextOfLen(n), 1, 1)) : n \in (SnippetCap - 2)..(SnippetCap + 3)}

\* record = extract_record(...), for the value `out` the provider call gave.
\* For a value that is no text, json.loads raises TypeError and so does
\* re.search in the except clause, which leaves extract_record.
ExtractRecord ==
    /\ call.fn = "extract_record"
    /\ ret = NotYet
    /\ ret' = IF call.out.t = "str" THEN extract_record(call.org, call.out.v) ELSE Raised
    /\ UNCHANGED <<call, sanVars, runVars>>

\* A response of the Ollama server.
HttpResponse(status, isJson, text, data) ==
    [kind |-> "response", status |-> status, json |-> isJson, text |-> text, data |-> data]

\* The outcomes of a post: network failures, error statuses, and successful
\* responses of the shapes of both dialects.
PostOutcomes ==
    { [kind |-> "raises", error |-> "ConnectionError"],
      [kind |-> "raises", error |-> "ReadTimeout"],
      HttpResponse(404, FALSE, "404 page not found", Null),
      HttpResponse(500, TRUE, "", Dict(<< <<"error", Str("model not loaded")>> >>)),
      HttpResponse(200, FALSE, "not json", Null),
      HttpResponse(200, TRUE, "", Dict(<< <<"model", Str("llama3")>>,
                                          <<"response", Str("{\"name\": \"Beta Ventures\"}")>> >>)),
      HttpResponse(200, TRUE, "",
                   Dict(<< <<"results", List(<< Dict(<< <<"n", Num(1)>>, <<"text", Str("{")>> >>),
                                                Str("skipped"),
                                                Dict(<< <<"text", Str("}")>> >>) >>)>> >>)),
      HttpResponse(200, TRUE, "",
                   Dict(<< <<"message", Dict(<< <<"role", Str("assistant")>>,
                                                <<"content", Str("{\"name\": \"Acme\"}")>> >>)>> >>)),
      HttpResponse(200, TRUE, "",
                   Dict(<< <<"choices",
                             List(<< Dict(<< <<"message",
                                               Dict(<< <<"content", Str("{\"a\": 1}")>> >>)>> >>) >>)>> >>)),
      HttpResponse(200, TRUE, "",
                   Dict(<< <<"choices", List(<< Dict(<< <<"content", Str("plain")>> >>) >>)>> >>)),
      HttpResponse(200, TRUE, "", Dict(<< <<"message", Dict(<< <<"content", Null>> >>)>> >>)),
      HttpResponse(200, TRUE, "", Dict(<< <<"done", Bool(TRUE)>>, <<"tags", List(<<Str("")>>)>> >>)) }

\* out = call_ollama(model, prompt, max_tokens, temperature), the posts on
\* the two endpoints having the outcomes call.responses.
CallOllama ==
    /\ call.fn = "call_ollama"
    /\ ret = NotYet
    /\ ret' = call_ollama(call.responses)
    /\ UNCHANGED <<call, sanVars, runVars>>

MaxNear == 1

\* The bounds of the ranges and amounts inside and outside them.
StageBounds == {100000, 500000, 2000000, 10000000, 30000000}

\* Amounts: every bound and its neighbours, with and without a half dollar,
\* amounts inside and outside the ranges, and no amount.
AmountInputs ==
    {Amount(b + d, h) : b \in StageBounds, d \in (0 - MaxNear)..MaxNear, h \in BOOLEAN}
    \cup {Amount(n, h) : n \in {0 - 1, 0, 50000, 250000, 1000000000}, h \in BOOLEAN}
    \cup {Null}

\* infer_stage_from_ticket(amount_usd)
InferStage ==
    /\ call.fn = "infer_stage_from_ticket"
    /\ ret = NotYet
    /\ ret' = infer_stage_from_ticket(call.amount_usd)
    /\ UNCHANGED <<call, sanVars, runVars>>

MaxPages == 3

\* A site named by its homepage, with and without a trailing slash, and by
\* one of its inner pages.
BaseUrls ==
    {"https://acme-fund.org", "https://beta-ventures.com/", "https://acme-fund.org/about"}

HttpPage(status, text) == [status |-> status, text |-> text]

\* Pages that give text, one of them more than the cap, and pages that fail
\* or are empty in each of the ways of the two fetchers.
PageOutcomes ==
    { Page(Str("Our members co-invest in seed rounds."), Raised),
      Page(Raised, HttpPage(200, "  About\n\n us \t")),
      Page(Str(TextOfLen(PageCap + 5)), Raised),
      Page(Null, HttpPage(404, "Not found")),
      Page(Raised, Raised),
      Page(Str(""), HttpPage(200, "")),
      Page(Null, HttpPage(200, " \n ")) }

RECURSIVE SeqsOf(_, _)
\* The sequences of n elements of S.
SeqsOf(S, n) ==
    IF n = 0 THEN {<<>>} ELSE {Append(q, x) : q \in SeqsOf(S, n - 1), x \in S}

\* texts = scrape_site(session, base_url, max_pages, sleep_sec), with the
\* candidates it fetched.
ScrapeSite ==
    /\ call.fn = "scrape_site"
    /\ ret = NotYet
    /\ ret' = [texts |-> Dict(scrape_site(SiteWeb(call.base_url, call.pages),
                                          call.base_url, call.max_pages)),
               visits |-> ScrapeVisits(call.base_url, call.max_pages)]
    /\ UNCHANGED <<call, sanVars, runVars>>

\* The inputs of the calls.
CallInputs ==
    [fn : {"_normalize_ddg_href"}, raw : LinkInputs]
    \cup [fn : {"choose_website"}, favorite_url : CellInputs, search_results : HitLists]
    \cup [fn : {"extract_record"}, org : OrgInputs, out : RawOutputs]
    \cup [fn : {"call_ollama"}, responses : PostOutcomes \X PostOutcomes]
    \cup [fn : {"infer_stage_from_ticket"}, amount_usd : AmountInputs]
    \cup [fn : {"scrape_site"}, base_url : BaseUrls, pages : SeqsOf(PageOutcomes, MaxPages),
          max_pages : 0..MaxPages]

CallInit ==
    /\ call \in CallInputs
    /\ ret = NotYet
    /\ SanIdle
    /\ RunIdle

CallNext ==
    \/ NormalizeLink
    \/ ChooseWebsite
    \/ ExtractRecord
    \/ CallOllama
    \/ InferStage
    \/ ScrapeSite

CallSpec == CallInit /\ [][CallNext]_vars

\* ------------------------------------------------------------------------
\* Properties of the helper functions (checked under CallSpec)
\* ------------------------------------------------------------------------
Returned(fn) == call.fn = fn /\ ret # NotYet

\* urlparse(link) of a link with or without the scheme http(s).
LinkParts(link) ==
    UrlParts(IF StartsWith(link, "https:") THEN SubSeq(link, 7, Len(link))
             ELSE IF StartsWith(link, "http:") THEN SubSeq(link, 6, Len(link))
             ELSE link)

\* The link is a redirect of DuckDuckGo: host duckduckgo.com, path /l/...
IsDdgRedirect(link) ==
    /\ LinkParts(link).netloc = "duckduckgo.com"
    /\ StartsWith(LinkParts(link).path, "/l/")

\* C11: for every link whose host is duckduckgo.com and whose path starts
\* with /l/, _normalize_ddg_href returns the decoded value of the uddg query
\* parameter.
DdgRedirectUnwrapped ==
    (Returned("_normalize_ddg_href") /\ call.raw.t = "str" /\ IsDdgRedirect(strip(call.raw.v)))
        => ret = QueryValue(LinkParts(strip(call.raw.v)).query, "uddg")

\* The URL the website cell yields, None when it yields none.
CellUrl(cell) == IF cell.t = "str" THEN _extract_url_from_freeform(cell.v) ELSE Null

\* The normalized link of hit k, None when the hit has no link.
HitUrl(hits, k) ==
    IF Truthy(HitLink(hits[k])) THEN _normalize_ddg_href(HitLink(hits[k])) ELSE Null

\* The hits whose normalized link is http(s) and not social.
AcceptedAt(hits) ==
    {k \in 1..Len(hits) :
        /\ HitUrl(hits, k).t = "str"
        /\ IsHttp(HitUrl(hits, k).v)
        /\ ~_is_social(HitUrl(hits, k).v)}

EmbeddedObjects(out) == {v \in JsonDocs : v.t = "dict" /\ Contains(out, Dumps(v))}

\* The raw text is a text that is not itself valid JSON.
NotJsonItself == call.out.t = "str" /\ json_loads(call.out.v) = Raised

\* C13: for every raw text that is not itself valid JSON and contains a
\* well-formed JSON object, extract_record returns the object parsed from
\* the first brace-delimited substring, whatever prose or further braces
\* precede or follow it.
EmbeddedObjectRecovered ==
    (Returned("extract_record") /\ NotJsonItself /\ EmbeddedObjects(call.out.v) # {})
        => ret \in EmbeddedObjects(call.out.v)

\* The first brace-delimited substring that is a JSON object, if any: the
\* raw text parses through it.
ParsesThroughBraces ==
    /\ Len(BraceBlock(call.out.v)) > 0
    /\ json_loads(BraceBlock(call.out.v)) # Raised

\* The notes of the fallback record for the raw text `out`: the fixed
\* prefix, at most SnippetCap characters of the stripped text, and three
\* dots when the text was cut.
FallbackNotes(out) ==
    "Model returned non-JSON. Raw snippet: "
    \o SubSeq(strip(out), 1, Min({Len(strip(out)), SnippetCap}))
    \o (IF Len(strip(out)) > SnippetCap THEN "..." ELSE "")

Succeeds(r) == r.kind = "response" /\ r.status < 400

\* The post was answered with 404, or failed at the network level.
NotFoundOrNetwork(r) == r.kind = "raises" \/ (r.kind = "response" /\ r.status = 404)

\* C15: call_ollama posts to the generate endpoint first and to the chat
\* endpoint second; a 404 or a network failure on generate makes it try
\* chat; a successful response on either dialect ends the call with that
\* dialect's text; it raises only when both dialects fail, and the error
\* carries the last failure recorded, that of chat.
GenerateThenChat ==
    Returned("call_ollama") =>
        /\ Succeeds(call.responses[1])
              => (ret.posts = 1 /\ ret.out = GenerateText(call.responses[1]))
        /\ NotFoundOrNetwork(call.responses[1]) => ret.posts = 2
        /\ (~Succeeds(call.responses[1]) /\ Succeeds(call.responses[2]))
              => (ret.posts = 2 /\ ret.out = ChatText(call.responses[2]))
        /\ ret.out.t = "raised"
              <=> (~Succeeds(call.responses[1]) /\ ~Succeeds(call.responses[2]))
        /\ ret.out.t = "raised"
              => ret.out = RuntimeError(LastExc(call.responses[2], ENDPOINTS[2][1]))

\* The generate endpoint answers 404 and the chat endpoint answers with a
\* text, which the call returns.
GenerateThenChatWitness ==
    /\ Returned("call_ollama")
    /\ call.responses[1].kind = "response"
    /\ call.responses[1].status = 404
    /\ Succeeds(call.responses[2])
    /\ ret.posts = 2
    /\ ret.out.t = "str"
    /\ Len(ret.out.v) > 0
    /\ ret.out = ChatText(call.responses[2])

\* Twice the amount, an integer: lo < amount <= hi is 2*lo < Twice <= 2*hi.
Twice(amount) == 2 * amount.v + (IF amount.half THEN 1 ELSE 0)

\* lo < amount <= hi
InRange(amount, lo, hi) == 2 * lo < Twice(amount) /\ Twice(amount) <= 2 * hi

STAGES == {"Pre-seed", "Seed", "Series A", "Series B", "Series C"}

\* C16: infer_stage_from_ticket gives Pre-seed exactly on [100000, 500000],
\* Seed on (500000, 2000000], Series A on (2000000, 10000000], Series B on
\* (10000000, 30000000], Series C above 30000000, and None below 100000 and
\* for no amount; every amount of at least 100000 gets exactly one stage.
StageRangesAsDocumented ==
    Returned("infer_stage_from_ticket") =>
        IF call.amount_usd = Null THEN ret = Null
        ELSE /\ ret = Str("Pre-seed")
                   <=> (2 * 100000 <= Twice(call.amount_usd)
                        /\ Twice(call.amount_usd) <= 2 * 500000)
             /\ ret = Str("Seed") <=> InRange(call.amount_usd, 500000, 2000000)
             /\ ret = Str("Series A") <=> InRange(call.amount_usd, 2000000, 10000000)
             /\ ret = Str("Series B") <=> InRange(call.amount_usd, 10000000, 30000000)
             /\ ret = Str("Series C") <=> Twice(call.amount_usd) > 2 * 30000000
             /\ ret = Null <=> Twice(call.amount_usd) < 2 * 100000
             /\ Twice(call.amount_usd) >= 2 * 100000
                   => Cardinality({s \in STAGES : ret = Str(s)}) = 1

\* Half a dollar above 500000: the first amount of the Seed range.
StageRangesAsDocumentedWitness ==
    /\ Returned("infer_stage_from_ticket")
    /\ call.amount_usd = Amount(500000, TRUE)
    /\ ret = Str("Seed")

\* C17 as stated: Pre-seed for every amount in [100000, 500000], Series A
\* for 2000000, Series B for exactly 30000000, Series C for 30000001, None
\* for 50000 and for no amount.
StageExamplesAsStated ==
    Returned("infer_stage_from_ticket") =>
        IF call.amount_usd = Null THEN ret = Null
        ELSE /\ (2 * 100000 <= Twice(call.amount_usd) /\ Twice(call.amount_usd) <= 2 * 500000)
                   => ret = Str("Pre-seed")
             /\ call.amount_usd = Amount(2000000, FALSE) => ret = Str("Series A")
             /\ call.amount_usd = Amount(30000000, FALSE) => ret = Str("Series B")
             /\ call.amount_usd = Amount(30000001, FALSE) => ret = Str("Series C")
             /\ call.amount_usd = Amount(50000, FALSE) => ret = Null

\* C17, amended: Pre-seed for every amount in [100000, 500000], Seed for
\* 2000000 (the upper end of the Seed range), Series B for exactly 30000000,
\* Series C for 30000001, None for 50000 and for no amount.
StageExamples ==
    Returned("infer_stage_from_ticket") =>
        IF call.amount_usd = Null THEN ret = Null
        ELSE /\ (2 * 100000 <= Twice(call.amount_usd) /\ Twice(call.amount_usd) <= 2 * 500000)
                   => ret = Str("Pre-seed")
             /\ call.amount_usd = Amount(2000000, FALSE) => ret = Str("Seed")
             /\ call.amount_usd = Amount(30000000, FALSE) => ret = Str("Series B")
             /\ call.amount_usd = Amount(30000001, FALSE) => ret = Str("Series C")
             /\ call.amount_usd = Amount(50000, FALSE) => ret = Null

\* The amount 2000000 and its stage.
StageExamplesWitness ==
    /\ Returned("infer_stage_from_ticket")
    /\ call.amount_usd = Amount(2000000, FALSE)
    /\ ret = Str("Seed")

\* The candidates of the call, and the text each gives.
Candidates == expand_candidate_urls(call.base_url)
TextAt(u) == FetchText(SiteWeb(call.base_url, call.pages), u)

\* The first position of u among the visits.
VisitOf(visits, u) == Min({i \in 1..Len(visits) : visits[i] = u})

\* visits is the first max_pages candidates, in the order of the list.
VisitsInOrder(visits, max_pages) ==
    /\ Len(visits) = IF max_pages < Len(Candidates) THEN max_pages ELSE Len(Candidates)
    /\ \A i \in 1..Len(visits) : visits[i] = Candidates[i]
    /\ Len(visits) > 0 => visits[1] = call.base_url

\* texts holds exactly the visited candidates that gave text, once each and
\* in the order of the visits, each with its text cut to the cap.
BundleOfVisits(texts, visits) ==
    /\ \A i \in 1..Len(visits) : HasKey(texts, visits[i]) <=> Len(TextAt(visits[i])) > 0
    /\ \A k \in 1..Len(texts) :
          /\ \E i \in 1..Len(visits) : visits[i] = texts[k][1]
          /\ Len(texts[k][2]) > 0
          /\ texts[k][2] = SubSeq(TextAt(texts[k][1]), 1,
                                  IF Len(TextAt(texts[k][1])) < PageCap
                                  THEN Len(TextAt(texts[k][1])) ELSE PageCap)
          /\ \A j \in 1..(k - 1) :
                VisitOf(visits, texts[j][1]) < VisitOf(visits, texts[k][1])

\* C20: scrape_site fetches the candidates in the order of the list, the
\* homepage first, and at most max_pages of them; a page that fails or gives
\* no text adds no entry and the candidates after it are still fetched; the
\* bundle has at most max_pages entries, each a fetched candidate with its
\* non-empty text cut to 6000 characters; no failure of a fetch makes the
\* call raise.
ScrapeSiteBundle ==
    Returned("scrape_site")
        => /\ ret.texts.t = "dict"
           /\ VisitsInOrder(ret.visits, call.max_pages)
           /\ Len(ret.texts.v) <= call.max_pages
           /\ BundleOfVisits(ret.texts.v, ret.visits)

\* C20 witness: the homepage fails in both fetchers, the next candidate
\* gives more than 6000 characters and the one after it gives text.
ScrapeSiteBundleWitness ==
    /\ Returned("scrape_site")
    /\ call.max_pages = MaxPages
    /\ call.pages[1] = Page(Raised, Raised)
    /\ Len(TextAt(Candidates[2])) > PageCap
    /\ ~HasKey(ret.texts.v, call.base_url)
    /\ Len(ret.texts.v) = 2
    /\ Len(ret.texts.v[1][2]) = PageCap

\* ------------------------------------------------------------------------
\* Properties of the search and the website of a row (checked under RunSpec)
\* ------------------------------------------------------------------------
\* The text of the website cell of row i.
WebsiteCell(i) == CellText(SheetRows[RowKind(i)].website)

\* The result appended for row i.
ResultOf(i) == results[CHOOSE k \in 1..Len(results) : results[k].index = i]

\* C21: for each row the search is called only when the website cell of the
\* row is empty and at most twice; when both attempts raise, the row goes on
\* with no hits and is written like any other row.
SearchOnlyWithoutWebsite ==
    \A i \in Rows :
        Ran(i) =>
            /\ env[i].searches > 0 => Len(WebsiteCell(i)) = 0
            /\ env[i].searches <= 2
            /\ (env[i].searches > 0 /\ env[i].world.search = "fail")
                  => /\ env[i].searches = 2
                     /\ env[i].hits = 0
                     /\ env[i].save \in {"none", "ok"}
                           => (HasResult(i) /\ df[i] # BlankCols /\ log[i] = "done")

\* C21 witness: a row with an empty website cell whose two attempts of the
\* search raised, written with no website.
SearchOnlyWithoutWebsiteWitness ==
    \E i \in Rows :
        /\ Ran(i)
        /\ Len(WebsiteCell(i)) = 0
        /\ env[i].world.search = "fail"
        /\ env[i].searches = 2
        /\ env[i].hits = 0
        /\ HasResult(i)
        /\ ResultOf(i).website = Null

\* ------------------------------------------------------------------------
\* Properties of the sector column (checked under Spec)
\* ------------------------------------------------------------------------
RECURSIVE SplitOn(_, _)
\* s.split(sep)
SplitOn(s, sep) ==
    IF ~Contains(s, sep) THEN <<s>>
    ELSE LET At(p) == <<SubSeq(s, 1, p - 1)>>
                      \o SplitOn(SubSeq(s, p + Len(sep), Len(s)), sep)
         IN  At(Min({i \in 1..(Len(s) - Len(sep) + 1) :
                        SubSeq(s, i, i + Len(sep) - 1) = sep}))

\* The labels the sector column names.
ColumnLabels == SplitOn(sanCols.sector.v, ", ")

\* C22: the sector column written for a sanitized record names no sector
\* twice, also when the model's sectors hold both "ICT" and the long form
\* "Information & Communication Technology (ICT)".
SectorColumnNamesEachOnce ==
    (sanCols # NotYet /\ sanCols # Raised /\ sanCols.sector # Null)
        => \A i, j \in 1..Len(ColumnLabels) : ColumnLabels[i] = ColumnLabels[j] => i = j

\* ------------------------------------------------------------------------
\* Properties of the social hosts (checked under CallSpec)
\* ------------------------------------------------------------------------
EndsWith(s, p) == Len(s) >= Len(p) /\ SubSeq(s, Len(s) - Len(p) + 1, Len(s)) = p

\* The host of a URL, in lower case.
HostOf(url) == lower(LinkParts(url).netloc)

\* The host of the URL is one of the social hosts, or a subdomain of one.
OnSocialHost(url) ==
    \E k \in 1..Len(SOCIAL_HOSTS) :
        \/ HostOf(url) = SOCIAL_HOSTS[k]
        \/ EndsWith(HostOf(url), "." \o SOCIAL_HOSTS[k])

\* The hits whose normalized link is http(s) and not on a social host.
OffSocialAt(hits) ==
    {k \in 1..Len(hits) :
        /\ HitUrl(hits, k).t = "str"
        /\ IsHttp(HitUrl(hits, k).v)
        /\ ~OnSocialHost(HitUrl(hits, k).v)}

\* C23: choose_website rejects a candidate as social media only when its
\* host is one of linkedin.com, facebook.com, twitter.com, x.com,
\* instagram.com, t.co; an http(s) URL on any other host is accepted, also
\* when the host contains one of those names as a substring.
SocialRejectedByHostOnly ==
    Returned("choose_website") =>
        IF CellUrl(call.favorite_url) # Null /\ ~OnSocialHost(CellUrl(call.favorite_url).v)
        THEN ret = CellUrl(call.favorite_url)
        ELSE IF OffSocialAt(call.search_results) # {}
        THEN ret = HitUrl(call.search_results, Min(OffSocialAt(call.search_results)))
        ELSE ret = Null

\* ------------------------------------------------------------------------
\* Properties of the fall-through to the search (checked under RunSpec)
\* ------------------------------------------------------------------------
\* The website cell of row i holds text that yields no accepted URL.
CellWithoutUrl(i) ==
    /\ Len(WebsiteCell(i)) > 0
    /\ choose_website(Str(WebsiteCell(i)), <<>>) = Null

\* C24: for a row whose website cell is not empty but yields no accepted
\* URL, such as a cell with only a social link, the search is made, and
\* when it returns an acceptable hit the website of the row is that hit.
UnusableCellFallsThroughToSearch ==
    \A i \in Rows :
        (Ran(i) /\ CellWithoutUrl(i) /\ env[i].world.search \in {"hits", "retry"})
            => /\ env[i].searches > 0
               /\ HasResult(i) => ResultOf(i).website = AcceptedHits(SearchHits.v)[1]
====
